---- MODULE Spec2Model ----
(***************************************************************************)
(* The test player of ion-test-player: App (bundle loading and reset),     *)
(* TestPlayer (frame sequencing, answers, mistake counters, timer, score,  *)
(* leaderboard calls) and TestFramePlayer (click routing, mistake flash).  *)
(*                                                                         *)
(* One step of the model is one browser task (a DOM event, a setTimeout / *)
(* setInterval callback, or the completion of a network call) followed by  *)
(* React's re-render and effects.  A handler therefore reads the state of  *)
(* the render before the step, and a setTimeout callback reads what the    *)
(* closure captured when it was scheduled.                                 *)
(***************************************************************************)
EXTENDS Integers, Sequences, FiniteSets, TLC

(* ------------------------------ bounds -------------------------------- *)
\* cap on each of the two mistake counters
MaxMistakes == 2
\* cap on the elapsed seconds
MaxTime == 1
\* cap on the setTimeout callbacks pending at once (a clipboard write that
\* will schedule one counts when the Share button is clicked)
MaxPending == 2
\* cap on the clipboard writes and 'Link Copied!' timeouts of handleShareClick
\* pending at once
MaxShares == 1

(* ------------------------- program constants -------------------------- *)
HotspotDelay == 200
BlurDelay == 150
FlashDelay == 700
CopiedDelay == 2500

\* once object URLs were left behind by a load that failed: the most object
\* URLs, made or due, with which a further load is followed
MaxUrls == 2

(* ------------------------------ helpers ------------------------------- *)
Max(a, b) == IF a >= b THEN a ELSE b

\* a JavaScript object used as a map: obj[k] = v
Put(m, k, v) == [x \in (DOMAIN m) \cup {k} |-> IF x = k THEN v ELSE m[x]]
\* obj[k] ?? d   (also obj[k] || d for the values stored here)
Get(m, k, d) == IF k \in DOMAIN m THEN m[k] ELSE d
EmptyMap == << >>

Range(s) == {s[i] : i \in DOMAIN s}

(* ------------------------------ strings ------------------------------- *)
\* A string is a sequence of one-character strings.
IsSpace(c) == c \in {" ", "\t"}

LowerChar(c) ==
    CASE c = "P" -> "p"
      [] c = "A" -> "a"
      [] c = "R" -> "r"
      [] c = "I" -> "i"
      [] c = "S" -> "s"
      [] c = "X" -> "x"
      [] OTHER -> c

\* String.prototype.toLowerCase
ToLowerCase(s) == [i \in DOMAIN s |-> LowerChar(s[i])]

RECURSIVE TrimStart(_)
TrimStart(s) ==
    IF s # << >> /\ IsSpace(Head(s)) THEN TrimStart(Tail(s)) ELSE s

RECURSIVE TrimEnd(_)
TrimEnd(s) ==
    IF s # << >> /\ IsSpace(s[Len(s)]) THEN TrimEnd(SubSeq(s, 1, Len(s) - 1)) ELSE s

\* String.prototype.trim
Trim(s) == TrimEnd(TrimStart(s))

\* String.prototype.includes, for a one-character needle
Includes(s, c) == \E i \in DOMAIN s : s[i] = c

Str_Paris == <<"P", "a", "r", "i", "s">>
Str_paris_padded == <<" ", "p", "a", "r", "i", "s", " ">>
Str_X == <<"X">>
Str_x == <<"x">>
Str_X_padded == <<" ", "X">>
Str_blank == <<" ">>
Str_empty == << >>

\* what a user may type into an input box
InputValues == {Str_empty, Str_blank, Str_paris_padded, Str_x}

\* what a user may type into the email field of the start form
Emails == {Str_empty, Str_x, <<"a", "@", "b">>}

(* --------------------------- the frame data --------------------------- *)
\* types.ts BoxType
HOTSPOT == "hotspot"
INPUT == "input"

\* a hotspot of the manifest; hasOrder is  typeof order === 'number'
RawHotspot(hasOrder, order) == [hasOrder |-> hasOrder, order |-> order]
Unordered == RawHotspot(FALSE, 0)
Ordered(k) == RawHotspot(TRUE, k)

\* a frame descriptor of the manifest
RawFrame(hotspots, inputs) == [hotspots |-> hotspots, inputs |-> inputs]

\* the frame descriptors the bundles are made of
OneOrderedFrame == RawFrame(<<Ordered(1), Unordered>>, << >>)
SequenceFrame == RawFrame(<<Ordered(1), Ordered(2), Ordered(3)>>, << >>)
InputsFrame == RawFrame(<< >>, <<Str_Paris, Str_X>>)
MixedFrame == RawFrame(<<Unordered>>, <<Str_Paris>>)
EmptyFrame == RawFrame(<< >>, << >>)
HotspotFrame == RawFrame(<<Unordered>>, << >>)
OneInputFrame == RawFrame(<< >>, <<Str_X_padded>>)
PartlyOrderedFrame == RawFrame(<<Ordered(1), Ordered(2), Unordered>>, << >>)

\* the manifests a bundle may hold: non-empty arrays of frame descriptors
Manifests ==
    { <<OneOrderedFrame>>, <<SequenceFrame>>, <<InputsFrame>>, <<MixedFrame>>, <<EmptyFrame>>,
      <<PartlyOrderedFrame>>,
      <<OneOrderedFrame, SequenceFrame>>,
      <<SequenceFrame, InputsFrame>>,
      <<InputsFrame, OneOrderedFrame>>,
      <<HotspotFrame, OneInputFrame, HotspotFrame>> }

\* the size the frame container is drawn at, and the image's own size
Rect == [width |-> 2, height |-> 2]
ImageSize == [width |-> 4, height |-> 8]
\* where a background click may land (clientX - rect.left, clientY - rect.top)
ClickPoints == {[x |-> 1, y |-> 2]}

\* processZipFile: the boxes of a frame, hotspots first, then inputs
BuildBoxes(f, raw) ==
    [j \in 1..(Len(raw.hotspots) + Len(raw.inputs)) |->
        IF j <= Len(raw.hotspots)
        THEN [id |-> <<f, j>>, type |-> HOTSPOT,
              hasOrder |-> raw.hotspots[j].hasOrder, order |-> raw.hotspots[j].order,
              expected |-> Str_empty]
        ELSE [id |-> <<f, j>>, type |-> INPUT, hasOrder |-> FALSE, order |-> 0,
              expected |-> raw.inputs[j - Len(raw.hotspots)]]]

\* frame.image of the frame descriptors of a manifest, in their order
ImageNames == <<"img1.png", "img2.png", "img3.png">>

\* processZipFile: the FrameData array built from a manifest
BuildFrames(manifest) ==
    [f \in 1..Len(manifest) |->
        [id |-> f, imageFileName |-> ImageNames[f],
         originalWidth |-> ImageSize.width, originalHeight |-> ImageSize.height,
         boxes |-> BuildBoxes(f, manifest[f])]]

\* a ZIP bundle as processZipFile sees it: what its manifest file holds
\* ("missing": no .json entry, "unparsable": JSON.parse throws, "notArray",
\* "array"), the frame descriptors of the array, and for each frame whether
\* its image is in the ZIP and loads ("ok", "missing", "unreadable");
\* "notZip": JSZip cannot open the file
Bundle(json, fs, images) == [json |-> json, frames |-> fs, images |-> images]
NoFile == Bundle("nothing", << >>, << >>)
GoodBundle(manifest) == Bundle("array", manifest, [f \in DOMAIN manifest |-> "ok"])
BadBundles ==
    { Bundle("notZip", << >>, << >>),
      Bundle("missing", << >>, << >>),
      Bundle("unparsable", << >>, << >>),
      Bundle("notArray", << >>, << >>),
      Bundle("array", << >>, << >>),
      Bundle("array", <<HotspotFrame, OneInputFrame>>, <<"ok", "missing">>),
      Bundle("array", <<HotspotFrame>>, <<"unreadable">>),
      Bundle("array", <<HotspotFrame, HotspotFrame>>, <<"unreadable", "missing">>) }
Bundles == {GoodBundle(m) : m \in Manifests} \cup BadBundles
\* the bundles a test URL may serve
UrlBundles ==
    {GoodBundle(<<HotspotFrame, OneInputFrame, HotspotFrame>>), GoodBundle(<<MixedFrame>>)}
    \cup BadBundles

NoId == << >>

\* a nullable string (error messages, the test URL)
NULL == "null"
\* a nullable value of another type: << >> is null, <<v>> is v
Some(v) == <<v>>

(* ------------------------------ the state ----------------------------- *)
VARIABLES
    \* App
    gameState, frames, error, testUrl,
    \* the file or blob handed to processZipFile for the load; none while a URL
    \* is fetched and after a reset
    file,
    \* TestPlayer
    currentFrameIdx, userAnswers, showResults, justClickedHotspotId, frameMistakes,
    hotspotMistakeCount, backgroundMistakes, backgroundMistakeCount, sequenceState,
    elapsedTime, testStarted, userEmail,
    isSubmittingScore, submissionError, leaderboardData, isFetchingLeaderboard,
    leaderboardError, copiedLink,
    \* the isSubmittingScore of the render React committed in the task in which
    \* the last addScore or getLeaderboard fetch settled, before the effects of
    \* that render ran
    committedSubmitting,
    \* the navigator.clipboard.writeText promises of the mounted TestPlayer that
    \* have not settled
    clipboard,
    \* TestFramePlayer
    showMistakeFlash,
    \* the browser: pending setTimeout callbacks of the mounted components (in the
    \* order they were scheduled), the network call of the mounted TestPlayer, and
    \* whether callbacks (timeouts, fetch continuations, clipboard promises) of
    \* components that were since unmounted are still pending: {"callback"} or {}
    timers, request, orphans,
    \* the proxy function (api/proxy.ts): the request it is handling
    proxy,
    \* the browser's object URLs: those made by URL.createObjectURL and not
    \* revoked since
    objectUrls,
    \* the processZipFile call that is running: where it stands (pc), the object
    \* URL made for each frame whose blob has arrived (urls, by frame), and the
    \* frames whose image has given its dimensions
    loading,
    \* the imageFile.async('blob') continuations still pending of calls of
    \* processZipFile that have already ended in their catch
    stragglers

\* the App's state and what its loads go through: the file being read and the
\* proxy service, which no handler of the page changes
appVars == <<gameState, frames, error, testUrl, file, proxy, objectUrls, loading, stragglers>>
navVars == <<currentFrameIdx, showResults>>
answerVars == <<userAnswers, sequenceState>>
mistakeVars == <<frameMistakes, hotspotMistakeCount, backgroundMistakes, backgroundMistakeCount>>
sessionVars == <<elapsedTime, testStarted, userEmail, copiedLink, clipboard>>
boardVars == <<isSubmittingScore, submissionError, leaderboardData, isFetchingLeaderboard,
               leaderboardError, committedSubmitting, request>>
feedbackVars == <<justClickedHotspotId, showMistakeFlash>>
browserVars == <<timers, orphans>>

vars == <<appVars, navVars, answerVars, mistakeVars, sessionVars, boardVars, feedbackVars,
          browserVars>>

NoRequest == [kind |-> "none", score |-> 0, totalPossible |-> 0, time |-> 0]

\* the proxy with no request in hand.  pc: where its handler stands; url: the
\* request's query.url; upstream: what fetch(targetUrl) gave; fetched: whether
\* the handler called fetch; status, contentType, sent: the answer so far (sent:
\* the chunks written to the response); left: the upstream chunks still to pipe
NoUpstream == [kind |-> "none", status |-> 0, statusText |-> "", contentType |-> NULL,
               body |-> << >>]
\* no call of processZipFile running, and one that has just been made
NotLoading == [pc |-> "idle", urls |-> << >>, sized |-> {}]
LoadStarted == [NotLoading EXCEPT !.pc = "zip"]

ProxyIdle == [pc |-> "idle", url |-> NULL, upstream |-> NoUpstream, fetched |-> FALSE,
              status |-> 0, contentType |-> NULL, sent |-> << >>, left |-> << >>]

\* App renders <TestPlayer> only in this case
Mounted == gameState = "playing" /\ Len(frames) > 0

\* (variant: the frame player rendered before the test is started)
FrameShown_BeforeStart == Mounted

\* TestPlayer renders <TestFramePlayer> (and the header, footer) only once started
FrameShown == Mounted /\ testStarted

currentFrameData == frames[currentFrameIdx + 1]

HotspotBoxes(frame) == {b \in Range(frame.boxes) : b.type = HOTSPOT}
InputBoxes(frame) == {b \in Range(frame.boxes) : b.type = INPUT}

\* useState initialisers of TestPlayer, for the frames it is mounted with
InitialAnswers(fs) == [f \in {fs[i].id : i \in DOMAIN fs} |-> [inputs |-> EmptyMap, hotspotsClicked |-> {}]]

PlayerInit(fs) ==
    /\ currentFrameIdx' = 0
    /\ userAnswers' = InitialAnswers(fs)
    /\ showResults' = FALSE
    /\ justClickedHotspotId' = NoId
    /\ frameMistakes' = {}
    /\ hotspotMistakeCount' = 0
    /\ backgroundMistakes' = EmptyMap
    /\ backgroundMistakeCount' = 0
    /\ sequenceState' = EmptyMap
    /\ elapsedTime' = 0
    /\ testStarted' = FALSE
    /\ userEmail' = Str_empty
    /\ isSubmittingScore' = FALSE
    /\ submissionError' = NULL
    /\ leaderboardData' = << >>
    /\ isFetchingLeaderboard' = FALSE
    /\ leaderboardError' = NULL
    /\ copiedLink' = FALSE
    /\ clipboard' = 0
    /\ committedSubmitting' = FALSE
    /\ showMistakeFlash' = FALSE

Init ==
    /\ gameState = "uploading"
    /\ frames = << >>
    /\ error = NULL
    /\ testUrl = NULL
    /\ file = NoFile
    /\ currentFrameIdx = 0
    /\ userAnswers = EmptyMap
    /\ showResults = FALSE
    /\ justClickedHotspotId = NoId
    /\ frameMistakes = {}
    /\ hotspotMistakeCount = 0
    /\ backgroundMistakes = EmptyMap
    /\ backgroundMistakeCount = 0
    /\ sequenceState = EmptyMap
    /\ elapsedTime = 0
    /\ testStarted = FALSE
    /\ userEmail = Str_empty
    /\ isSubmittingScore = FALSE
    /\ submissionError = NULL
    /\ leaderboardData = << >>
    /\ isFetchingLeaderboard = FALSE
    /\ leaderboardError = NULL
    /\ copiedLink = FALSE
    /\ clipboard = 0
    /\ committedSubmitting = FALSE
    /\ showMistakeFlash = FALSE
    /\ timers = << >>
    /\ request = NoRequest
    /\ proxy = ProxyIdle
    /\ objectUrls = {}
    /\ loading = NotLoading
    /\ stragglers = 0
    /\ orphans = {}

(* ------------------------------ scoring ------------------------------- *)
\* (variant: the comparison without toLowerCase)
InputCorrect_CaseSensitive(userAnswer, expected) == Trim(userAnswer) = Trim(expected)

\* the comparison of an input's text with its expected text
InputCorrect(userAnswer, expected) ==
    ToLowerCase(Trim(userAnswer)) = ToLowerCase(Trim(expected))

\* what one box adds to s in the score useMemo
BoxPoints(box, frameAnswers) ==
    IF box.type = INPUT
    THEN IF InputCorrect(Get(frameAnswers.inputs, box.id, Str_empty), box.expected) THEN 1 ELSE 0
    ELSE IF box.type = HOTSPOT /\ box.id \in frameAnswers.hotspotsClicked THEN 1 ELSE 0

\* frame.boxes.forEach: [s, t] after the boxes j..end of one frame
RECURSIVE SumBoxes(_, _, _, _)
SumBoxes(boxes, frameAnswers, j, acc) ==
    IF j > Len(boxes) THEN acc
    ELSE SumBoxes(boxes, frameAnswers, j + 1,
                  [s |-> acc.s + BoxPoints(boxes[j], frameAnswers), t |-> acc.t + 1])

\* frames.forEach: [s, t] after the frames i..end
RECURSIVE SumFrames(_, _, _, _)
SumFrames(fs, answers, i, acc) ==
    IF i > Len(fs) THEN acc
    ELSE SumFrames(fs, answers, i + 1, SumBoxes(fs[i].boxes, answers[fs[i].id], 1, acc))

\* (variant: the difference returned as it is)
ClampScore_Unclamped(s) == s

\* Math.max(0, s) at the end of the score useMemo
ClampScore(s) == Max(0, s)

\* (variant: only the wrong-hotspot clicks deducted)
ComputeScore_HotspotMistakesOnly(results, fs, answers, hotspotMistakes, backgroundMistakesN) ==
    IF ~results THEN [score |-> 0, totalPossible |-> 0]
    ELSE LET sums == SumFrames(fs, answers, 1, [s |-> 0, t |-> 0])
         IN  [score |-> ClampScore(sums.s - hotspotMistakes), totalPossible |-> sums.t]

\* the score useMemo, as a function of its dependencies
ComputeScore(results, fs, answers, hotspotMistakes, backgroundMistakesN) ==
    IF ~results THEN [score |-> 0, totalPossible |-> 0]
    ELSE LET sums == SumFrames(fs, answers, 1, [s |-> 0, t |-> 0])
             totalMistakes == hotspotMistakes + backgroundMistakesN
         IN  [score |-> ClampScore(sums.s - totalMistakes), totalPossible |-> sums.t]

score == ComputeScore(showResults, frames, userAnswers, hotspotMistakeCount, backgroundMistakeCount).score
totalPossible == ComputeScore(showResults, frames, userAnswers, hotspotMistakeCount, backgroundMistakeCount).totalPossible

(* ------------------------- timers and effects ------------------------- *)
\* A pending setTimeout callback.  idx is the currentFrameIdx captured by the
\* navigate closure it calls, last the captured isLastInSequence.
Timer(kind, delay, idx, last) == [kind |-> kind, delay |-> delay, idx |-> idx, last |-> last]

\* Timers fire in the order of their due times.  The model keeps no clock: a
\* callback may fire once no callback scheduled before it with the same or a
\* shorter delay is still pending (that one is due earlier).
MayFire(i) == \A j \in 1..(i - 1) : timers[j].delay > timers[i].delay

RemoveAt(s, i) == SubSeq(s, 1, i - 1) \o SubSeq(s, i + 1, Len(s))

IsFlashTimer(t) == t.kind = "mistakeFlash"
IsNotFlashTimer(t) == ~IsFlashTimer(t)

\* (variant: 'next' without the test against frames.length - 1)
Navigate_PastTheEnd(direction, idx, nFrames, curIdx, curResults) ==
    IF direction = "next"
    THEN [idx |-> idx + 1, results |-> curResults]
    ELSE IF direction = "prev" /\ idx > 0
         THEN [idx |-> idx - 1, results |-> curResults]
         ELSE [idx |-> curIdx, results |-> curResults]

\* (variant: navigate reading the frame index current when it runs, as a
\* functional update would)
Navigate_FromCurrent(direction, idx, nFrames, curIdx, curResults) ==
    IF direction = "next"
    THEN IF curIdx < nFrames - 1
         THEN [idx |-> curIdx + 1, results |-> curResults]
         ELSE [idx |-> curIdx, results |-> TRUE]
    ELSE IF direction = "prev" /\ curIdx > 0
         THEN [idx |-> curIdx - 1, results |-> curResults]
         ELSE [idx |-> curIdx, results |-> curResults]

\* navigate(direction) of the render in which currentFrameIdx was idx:
\* the values of (currentFrameIdx, showResults) after it, given the current ones
Navigate(direction, idx, nFrames, curIdx, curResults) ==
    IF direction = "next"
    THEN IF idx < nFrames - 1
         THEN [idx |-> idx + 1, results |-> curResults]
         ELSE [idx |-> curIdx, results |-> TRUE]
    ELSE IF direction = "prev" /\ idx > 0
         THEN [idx |-> idx - 1, results |-> curResults]
         ELSE [idx |-> curIdx, results |-> curResults]

\* <TestFramePlayer key={currentFrameData.id}>: a change of frame mounts a new
\* instance (showMistakeFlash false); the old instance's flash callbacks stay
\* pending in the browser but act on nothing.  rest: the timers left otherwise.
Remount(newIdx, rest, flash) ==
    IF newIdx # currentFrameIdx
    THEN /\ showMistakeFlash' = FALSE
         /\ timers' = SelectSeq(rest, IsNotFlashTimer)
         /\ orphans' = orphans \cup (IF SelectSeq(rest, IsFlashTimer) # << >> THEN {"callback"} ELSE {})
    ELSE /\ showMistakeFlash' = flash
         /\ timers' = rest
         /\ orphans' = orphans

\* (variant: the condition without the testUrl test)
ShouldSubmit_IgnoresUrl(results, email, url, data, submitting, subError) ==
    results /\ email # Str_empty /\ data = << >> /\ ~submitting /\ subError = NULL

\* the condition of the submitScore effect
ShouldSubmit(results, email, url, data, submitting, subError) ==
    results /\ email # Str_empty /\ url # NULL /\ data = << >> /\ ~submitting /\ subError = NULL

\* (variant: the effect sending the score and total of the render before, in
\* which showResults still had its old value)
SubmitEffect_StaleScore(results, data, submitting, subError, req) ==
    IF ShouldSubmit(results, userEmail, testUrl, data, submitting, subError)
    THEN /\ isSubmittingScore' = TRUE
         /\ submissionError' = NULL
         /\ request' = [kind |-> "addScore",
                        score |-> ComputeScore(showResults, frames, userAnswers,
                                               hotspotMistakeCount, backgroundMistakeCount).score,
                        totalPossible |-> ComputeScore(showResults, frames, userAnswers,
                                                       hotspotMistakeCount,
                                                       backgroundMistakeCount).totalPossible,
                        time |-> elapsedTime]
    ELSE /\ isSubmittingScore' = submitting
         /\ submissionError' = subError
         /\ request' = req

\* the submitScore effect after a render in which the handler left showResults,
\* leaderboardData, isSubmittingScore, submissionError and the pending call as
\* given: when its condition holds it starts the addScore call with the score,
\* total and time of that render
SubmitEffect(results, data, submitting, subError, req) ==
    IF ShouldSubmit(results, userEmail, testUrl, data, submitting, subError)
    THEN /\ isSubmittingScore' = TRUE
         /\ submissionError' = NULL
         /\ request' = [kind |-> "addScore",
                        score |-> ComputeScore(results, frames, userAnswers, hotspotMistakeCount,
                                               backgroundMistakeCount).score,
                        totalPossible |-> ComputeScore(results, frames, userAnswers,
                                                       hotspotMistakeCount,
                                                       backgroundMistakeCount).totalPossible,
                        time |-> elapsedTime]
    ELSE /\ isSubmittingScore' = submitting
         /\ submissionError' = subError
         /\ request' = req

(* -------------------------------- App --------------------------------- *)
\* A URL as it is typed, or passed in ?testUrl=: the sequence of its characters,
\* those of the address itself held as one piece.
RECURSIVE Concat(_)
Concat(s) == IF s = << >> THEN "" ELSE Head(s) \o Concat(Tail(s))

TestUrls == {<<"https://host/test.zip">>, <<" ", " ", "https://host/test.zip", " ">>}
\* how fetching the bundle of a URL may fail: the Error thrown
FetchFailures ==
    { "Failed to fetch",
      "Failed to fetch file from URL. Status: 404 Not Found.",
      "Failed to download the file. The URL may be incorrect, private, or point to a webpage instead of a direct file link." }

Loaded(fs) == [ok |-> TRUE, frames |-> fs, messages |-> {}]
Failed(messages) == [ok |-> FALSE, frames |-> << >>, messages |-> messages]

\* the Error thrown for a frame whose image does not load
ImageError(status, image) ==
    IF status = "missing"
    THEN "Image file \"" \o image \o "\" specified in the JSON was not found in the ZIP."
    ELSE "Could not get dimensions for image: " \o image

\* the frames of a bundle whose image is not in the ZIP, and those whose image
\* is there but does not load
MissingImages(b) == {f \in DOMAIN b.frames : b.images[f] = "missing"}
UnreadableImages(b) == {f \in DOMAIN b.frames : b.images[f] = "unreadable"}

\* Promise.all over the frames: the callback of a frame whose image is missing
\* throws before its first await, so the first such frame of the manifest
\* rejects first; otherwise the first img.onerror to fire does
ImageMessages(b) ==
    IF MissingImages(b) # {}
    THEN {ImageError("missing", ImageNames[CHOOSE f \in MissingImages(b) :
                                               \A g \in MissingImages(b) : f <= g])}
    ELSE {ImageError("unreadable", ImageNames[f]) : f \in UnreadableImages(b)}

\* (variant: without the parsedFrames.length === 0 test)
ProcessZipFile_AcceptsEmpty(b) ==
    IF b.json = "notZip" THEN Failed({"Can't find end of central directory : is this a zip file ?"})
    ELSE IF b.json = "missing" THEN Failed({"ZIP file must contain a JSON manifest file."})
    ELSE IF b.json = "unparsable" THEN Failed({"Unexpected end of JSON input"})
    ELSE IF b.json # "array"
    THEN Failed({"JSON file is empty or has an invalid format."})
    ELSE IF \E f \in DOMAIN b.frames : b.images[f] # "ok"
    THEN Failed(ImageMessages(b))
    ELSE Loaded(BuildFrames(b.frames))

\* the try block of processZipFile: the frames built, or the messages of the
\* Errors it may end with
ProcessZipFile(b) ==
    IF b.json = "notZip" THEN Failed({"Can't find end of central directory : is this a zip file ?"})
    ELSE IF b.json = "missing" THEN Failed({"ZIP file must contain a JSON manifest file."})
    ELSE IF b.json = "unparsable" THEN Failed({"Unexpected end of JSON input"})
    ELSE IF b.json # "array" \/ Len(b.frames) = 0
    THEN Failed({"JSON file is empty or has an invalid format."})
    ELSE IF \E f \in DOMAIN b.frames : b.images[f] # "ok"
    THEN Failed(ImageMessages(b))
    ELSE Loaded(BuildFrames(b.frames))

\* the await at which the try block of processZipFile throws for a bundle that
\* does not load: after JSZip.loadAsync ("zip": not a ZIP, no manifest file),
\* after dataFile.async('string') ("manifest": JSON.parse, the array test, a
\* frame whose image is not in the ZIP), or in an img.onerror ("images")
FailsAt(b) ==
    IF b.json \in {"notZip", "missing"} THEN "zip"
    ELSE IF b.json # "array" \/ Len(b.frames) = 0 \/ MissingImages(b) # {} THEN "manifest"
    ELSE "images"

\* URL.createObjectURL: the k-th URL made when those in live exist; every call
\* gives a URL no other call gave (the model numbers them)
FreshUrl(live, k) ==
    CHOOSE u \in 1..(Cardinality(live) + k) :
        u \notin live /\ Cardinality({v \in 1..u : v \notin live}) = k

\* processZipFile: the frames with the imageDataUrl each was given
WithUrls(fs, urls) ==
    [f \in DOMAIN fs |->
        [k \in DOMAIN fs[f] \cup {"imageDataUrl"} |->
            IF k = "imageDataUrl" THEN urls[f] ELSE fs[f][k]]]

\* the frames of a bundle for which processZipFile reaches createObjectURL when
\* no other frame stops it: those whose image is in the ZIP
UrlsMade(b) ==
    IF b.json = "array" THEN {f \in DOMAIN b.frames : b.images[f] # "missing"} ELSE {}

\* cleanupResources: revokeObjectURL for the imageDataUrl of each frame of the
\* frames state
CleanupResources(fs, live) == live \ {fs[f].imageDataUrl : f \in DOMAIN fs}

\* the object URLs that exist or that a pending continuation will make
UrlsDue ==
    Cardinality(objectUrls) + stragglers
    + (IF loading.pc = "images"
       THEN Cardinality(DOMAIN file.frames \ DOMAIN loading.urls) ELSE 0)

PlayerUnchanged ==
    UNCHANGED <<navVars, answerVars, mistakeVars, sessionVars, boardVars, feedbackVars, browserVars>>

\* handleFileUpload, up to the await of JSZip.loadAsync in processZipFile
HandleFileUpload(b) ==
    /\ gameState = "uploading"
    /\ (UrlsDue = 0 \/ UrlsDue + Cardinality(UrlsMade(b)) <= MaxUrls)
    /\ gameState' = "processing"
    /\ error' = NULL
    /\ testUrl' = NULL
    /\ file' = b
    /\ loading' = LoadStarted
    /\ UNCHANGED <<frames, proxy, objectUrls, stragglers>>
    /\ PlayerUnchanged

\* handleUrlSubmit, up to the await of fetch
HandleUrlSubmit(rawUrl) ==
    /\ gameState = "uploading"
    /\ gameState' = "processing"
    /\ error' = NULL
    /\ testUrl' = Concat(Trim(rawUrl))
    /\ file' = NoFile
    /\ UNCHANGED <<frames, proxy, objectUrls, loading, stragglers>>
    /\ PlayerUnchanged

\* handleUrlSubmit: the fetch returned the bundle; processZipFile(blob) begins,
\* up to the await of JSZip.loadAsync
FetchCompletes(b) ==
    /\ gameState = "processing" /\ testUrl # NULL /\ file = NoFile
    /\ (UrlsDue = 0 \/ UrlsDue + Cardinality(UrlsMade(b)) <= MaxUrls)
    /\ file' = b
    /\ loading' = LoadStarted
    /\ UNCHANGED <<gameState, frames, error, testUrl, proxy, objectUrls, stragglers>>
    /\ PlayerUnchanged

\* the catch of handleUrlSubmit: the message set as the error
CatchMessage(isError, message) ==
    IF isError THEN message ELSE "An unknown error occurred while fetching the URL."

\* handleUrlSubmit: the fetch, or the checks of its response, threw
FetchFails(message) ==
    /\ gameState = "processing" /\ testUrl # NULL /\ file = NoFile
    /\ error' = CatchMessage(TRUE, message)
    /\ gameState' = "error"
    /\ UNCHANGED <<frames, testUrl, file, proxy, objectUrls, loading, stragglers>>
    /\ PlayerUnchanged

\* processZipFile: JSZip.loadAsync resolved and a manifest file was found; up
\* to the await of dataFile.async('string')
ZipOpened ==
    /\ gameState = "processing" /\ loading.pc = "zip"
    /\ FailsAt(file) # "zip"
    /\ loading' = [loading EXCEPT !.pc = "manifest"]
    /\ UNCHANGED <<gameState, frames, error, testUrl, file, proxy, objectUrls, stragglers>>
    /\ PlayerUnchanged

\* processZipFile: the manifest was read and is a non-empty array whose images
\* are all in the ZIP; every frame's callback runs up to its await of
\* imageFile.async('blob')
ManifestRead ==
    /\ gameState = "processing" /\ loading.pc = "manifest"
    /\ ProcessZipFile(file).ok \/ FailsAt(file) = "images"
    /\ Len(file.frames) > 0
    /\ loading' = [loading EXCEPT !.pc = "images"]
    /\ UNCHANGED <<gameState, frames, error, testUrl, file, proxy, objectUrls, stragglers>>
    /\ PlayerUnchanged

\* processZipFile: the blob of a frame arrived (the frames' reads end in any
\* order); createObjectURL, then up to the await of the image's dimensions
BlobRead(f) ==
    /\ gameState = "processing" /\ loading.pc = "images"
    /\ f \in DOMAIN file.frames /\ f \notin DOMAIN loading.urls
    /\ loading' = [loading EXCEPT !.urls = Put(@, f, FreshUrl(objectUrls, 1))]
    /\ objectUrls' = objectUrls \cup {FreshUrl(objectUrls, 1)}
    /\ UNCHANGED <<gameState, frames, error, testUrl, file, proxy, stragglers>>
    /\ PlayerUnchanged

\* processZipFile: img.onload of a frame, others still to come
ImageLoaded(f) ==
    /\ gameState = "processing" /\ loading.pc = "images"
    /\ f \in DOMAIN loading.urls /\ f \notin loading.sized
    /\ file.images[f] = "ok"
    /\ loading.sized \cup {f} # DOMAIN file.frames
    /\ loading' = [loading EXCEPT !.sized = @ \cup {f}]
    /\ UNCHANGED <<gameState, frames, error, testUrl, file, proxy, objectUrls, stragglers>>
    /\ PlayerUnchanged

\* processZipFile succeeds, with the last img.onload (or, were Promise.all
\* given no frame, once the manifest is read): setFrames,
\* setGameState('playing'); TestPlayer mounts if there is a frame
ProcessZipFileOk ==
    /\ gameState = "processing"
    /\ ProcessZipFile(file).ok
    /\ \/ /\ loading.pc = "manifest"
          /\ Len(file.frames) = 0
       \/ /\ loading.pc = "images"
          /\ DOMAIN loading.urls = DOMAIN file.frames
          /\ \E f \in DOMAIN file.frames : loading.sized = DOMAIN file.frames \ {f}
    /\ frames' = WithUrls(ProcessZipFile(file).frames, loading.urls)
    /\ loading' = NotLoading
    /\ gameState' = "playing"
    /\ UNCHANGED <<error, testUrl, file, proxy, objectUrls, stragglers>>
    /\ PlayerInit(frames')
    /\ UNCHANGED <<timers, request, orphans>>

\* processZipFile throws: setError, setGameState('error').  The callbacks of
\* the frames whose blob has not arrived run on afterwards.
ProcessZipFileError(message) ==
    /\ gameState = "processing" /\ loading.pc = FailsAt(file)
    /\ ~ProcessZipFile(file).ok
    /\ message \in ProcessZipFile(file).messages
    /\ \/ /\ loading.pc = "zip"
          /\ stragglers' = stragglers
       \/ /\ loading.pc = "manifest"
          /\ stragglers' = stragglers + Cardinality(UrlsMade(file))
       \/ /\ loading.pc = "images"
          /\ \E f \in DOMAIN loading.urls \ loading.sized :
                 /\ file.images[f] = "unreadable"
                 /\ message = ImageError("unreadable", ImageNames[f])
          /\ stragglers' = stragglers + Cardinality(DOMAIN file.frames \ DOMAIN loading.urls)
    /\ loading' = NotLoading
    /\ error' = message
    /\ gameState' = "error"
    /\ UNCHANGED <<frames, testUrl, file, proxy, objectUrls>>
    /\ PlayerUnchanged

\* a blob continuation of a call of processZipFile that has ended in its catch:
\* createObjectURL for a frame that will never be in the frames state
LateBlobRead ==
    /\ stragglers > 0
    /\ stragglers' = stragglers - 1
    /\ objectUrls' = objectUrls \cup {FreshUrl(objectUrls, 1)}
    /\ UNCHANGED <<gameState, frames, error, testUrl, file, proxy, loading>>
    /\ PlayerUnchanged

\* the controls that call handleReset: Try Again of the error screen, and Exit
\* Test of TestPlayer, which is rendered once the test is started
ResetOffered == gameState = "error" \/ (Mounted /\ testStarted)

\* (variant: the callbacks of the old TestPlayer still act on the next one)
HandleReset_TimersSurvive ==
    /\ ResetOffered
    /\ gameState' = "uploading"
    /\ frames' = << >>
    /\ error' = NULL
    /\ testUrl' = NULL
    /\ file' = NoFile
    /\ UNCHANGED <<proxy, loading, stragglers>>
    /\ objectUrls' = CleanupResources(frames, objectUrls)
    /\ PlayerInit(frames')
    /\ timers' = timers
    /\ request' = NoRequest
    /\ orphans' = orphans

\* handleReset (Try Again, Exit Test): TestPlayer unmounts; what it left pending
\* in the browser (timeouts, a fetch, a clipboard write) stays pending
HandleReset ==
    /\ ResetOffered
    /\ gameState' = "uploading"
    /\ frames' = << >>
    /\ error' = NULL
    /\ testUrl' = NULL
    /\ file' = NoFile
    /\ UNCHANGED <<proxy, loading, stragglers>>
    /\ objectUrls' = CleanupResources(frames, objectUrls)
    /\ PlayerInit(frames')
    /\ timers' = << >>
    /\ request' = NoRequest
    /\ orphans' = orphans \cup (IF timers # << >> \/ request.kind # "none" \/ clipboard > 0
                               THEN {"callback"} ELSE {})

\* the callbacks of unmounted components run: their setState calls do nothing
OrphansRun ==
    /\ orphans # {}
    /\ orphans' = {}
    /\ UNCHANGED <<appVars, navVars, answerVars, mistakeVars, sessionVars, boardVars,
                   feedbackVars, timers>>

(* ----------------------------- TestPlayer ----------------------------- *)
\* the start form's email field
SetUserEmail(email) ==
    /\ Mounted /\ ~testStarted
    /\ userEmail' = email
    /\ UNCHANGED <<appVars, navVars, answerVars, mistakeVars, elapsedTime, testStarted,
                   copiedLink, clipboard, boardVars, feedbackVars, browserVars>>

\* the start form's submit; its button is disabled unless the email holds an '@'
StartTest ==
    /\ Mounted /\ ~testStarted
    /\ Includes(userEmail, "@")
    /\ testStarted' = TRUE
    /\ UNCHANGED <<appVars, navVars, answerVars, mistakeVars, elapsedTime, userEmail,
                   copiedLink, clipboard, boardVars, feedbackVars, browserVars>>

\* (variant: the effect without the showResults test)
TimerRunning_IgnoresResults == Mounted /\ testStarted

\* the timer effect: the interval exists in the renders with testStarted and not showResults
TimerRunning == Mounted /\ testStarted /\ ~showResults

\* one tick of the setInterval of the timer effect
Tick ==
    /\ TimerRunning
    /\ elapsedTime < MaxTime
    /\ elapsedTime' = elapsedTime + 1
    /\ UNCHANGED <<appVars, navVars, answerVars, mistakeVars, testStarted, userEmail,
                   copiedLink, clipboard, boardVars, feedbackVars, browserVars>>

\* the orderedHotspots / isSequential useMemo
OrderedHotspots(frame) == {b \in HotspotBoxes(frame) : b.hasOrder}
\* (variant: hotspots.length > 0)
IsSequential_AnyOrdered(frame) == Cardinality(OrderedHotspots(frame)) > 0
IsSequential(frame) == Cardinality(OrderedHotspots(frame)) > 1

\* (variant: the default { nextOrder: 0 })
NextOrder_FromZero(seqState, frameId) == Get(seqState, frameId, 0)

\* sequenceState[frame.id] || { nextOrder: 1 }
NextOrder(seqState, frameId) == Get(seqState, frameId, 1)

\* (variant: the order of the clicked hotspot not compared)
IsCorrectInSequence_AnyOrdered(clickedHotspot, progress) == clickedHotspot.hasOrder

\* (variant: a hotspot without order is accepted at any time)
IsCorrectInSequence_FreeIfUnordered(clickedHotspot, progress) ==
    ~clickedHotspot.hasOrder \/ clickedHotspot.order = progress

\* (variant: any order not yet passed is accepted)
IsCorrectInSequence_AtLeast(clickedHotspot, progress) ==
    clickedHotspot.hasOrder /\ clickedHotspot.order >= progress

\* the test of a click on a sequential frame:
\* isOrderedHotspot && clickedHotspot.order === progress.nextOrder
IsCorrectInSequence(clickedHotspot, progress) ==
    clickedHotspot.hasOrder /\ clickedHotspot.order = progress

\* (variant: compared after the increment)
IsLastInSequence_OffByOne(progress, frame) ==
    progress + 1 = Cardinality(OrderedHotspots(frame))

\* isLastInSequence: progress.nextOrder === orderedHotspots.length
IsLastInSequence(progress, frame) == progress = Cardinality(OrderedHotspots(frame))

\* (variant: the earlier hotspotsClicked of the frame not spread into the new one)
RecordClick_Replace(answers, frameId, boxId) ==
    LET prev == Get(answers, frameId, [inputs |-> EmptyMap, hotspotsClicked |-> {}])
    IN  Put(answers, frameId, [inputs |-> prev.inputs, hotspotsClicked |-> {boxId}])

\* recordClick: userAnswers with boxId marked clicked on the frame
RecordClick(answers, frameId, boxId) ==
    LET prev == Get(answers, frameId, [inputs |-> EmptyMap, hotspotsClicked |-> {}])
    IN  Put(answers, frameId, [inputs |-> prev.inputs,
                               hotspotsClicked |-> prev.hotspotsClicked \cup {boxId}])

\* triggerMistakeFlash of TestFramePlayer
TriggerMistakeFlash ==
    /\ Len(timers) < MaxPending
    /\ showMistakeFlash' = TRUE
    /\ timers' = Append(timers, Timer("mistakeFlash", FlashDelay, currentFrameIdx, FALSE))

\* handleMistakeOccurred
HandleMistakeOccurred ==
    IF showResults
    THEN UNCHANGED <<frameMistakes, showMistakeFlash, timers>>
    ELSE /\ frameMistakes' = frameMistakes \cup {currentFrameData.id}
         /\ TriggerMistakeFlash

\* handleHotspotInteraction(boxId)
HandleHotspotInteraction(boxId) ==
    LET frame == currentFrameData
        found == {b \in Range(frame.boxes) : b.id = boxId}
    IN  IF showResults \/ found = {} \/ (\A b \in found : b.type # HOTSPOT)
        THEN UNCHANGED vars
        ELSE LET clickedHotspot == CHOOSE b \in found : TRUE
                 progress == NextOrder(sequenceState, frame.id)
             IN  IF ~IsSequential(frame)
                 THEN /\ userAnswers' = RecordClick(userAnswers, frame.id, boxId)
                      /\ justClickedHotspotId' = boxId
                      /\ Len(timers) < MaxPending
                      /\ timers' = Append(timers, Timer("hotspotAdvance", HotspotDelay,
                                                        currentFrameIdx, FALSE))
                      /\ UNCHANGED <<appVars, navVars, sequenceState, mistakeVars, sessionVars,
                                     boardVars, showMistakeFlash, orphans>>
                 ELSE IF IsCorrectInSequence(clickedHotspot, progress)
                 THEN /\ userAnswers' = RecordClick(userAnswers, frame.id, boxId)
                      /\ sequenceState' = Put(sequenceState, frame.id, progress + 1)
                      /\ justClickedHotspotId' = boxId
                      /\ Len(timers) < MaxPending
                      /\ timers' = Append(timers,
                             Timer("sequenceStep", HotspotDelay, currentFrameIdx,
                                   IsLastInSequence(progress, frame)))
                      /\ UNCHANGED <<appVars, navVars, mistakeVars, sessionVars, boardVars,
                                     showMistakeFlash, orphans>>
                 ELSE /\ hotspotMistakeCount < MaxMistakes
                      /\ hotspotMistakeCount' = hotspotMistakeCount + 1
                      /\ HandleMistakeOccurred
                      /\ UNCHANGED <<appVars, navVars, answerVars, backgroundMistakes,
                                     backgroundMistakeCount, sessionVars, boardVars,
                                     justClickedHotspotId, orphans>>

\* a click (or Enter / Space) on a hotspot of the frame shown
ClickHotspot(boxId) ==
    /\ FrameShown
    /\ boxId \in {b.id : b \in HotspotBoxes(currentFrameData)}
    /\ IF ~showResults THEN HandleHotspotInteraction(boxId) ELSE UNCHANGED vars

\* (variant: the click's container coordinates passed on unscaled)
ImageCoords_Unscaled(point, frame) == [x |-> point.x, y |-> point.y]

\* handleContainerClick: (x / rect.width) * frame.originalWidth, likewise y.
\* The click points and sizes of the model make the quotient exact.
ImageCoords(point, frame) ==
    [x |-> (point.x * frame.originalWidth) \div Rect.width,
     y |-> (point.y * frame.originalHeight) \div Rect.height]

\* (variant: any box makes the frame count)
FrameHasHotspot_AnyBox(frame) == Len(frame.boxes) > 0

\* currentFrameData?.boxes.some(box => box.type === BoxType.HOTSPOT)
FrameHasHotspot(frame) == \E b \in Range(frame.boxes) : b.type = HOTSPOT

\* (variant: the frame's earlier coordinates not spread into the new list)
HandleFrameClickMistake_CoordsReplaced(coords) ==
    IF showResults \/ ~FrameHasHotspot(currentFrameData)
    THEN UNCHANGED vars
    ELSE /\ backgroundMistakeCount < MaxMistakes
         /\ backgroundMistakeCount' = backgroundMistakeCount + 1
         /\ backgroundMistakes' = Put(backgroundMistakes, currentFrameData.id, <<coords>>)
         /\ HandleMistakeOccurred
         /\ UNCHANGED <<appVars, navVars, answerVars, hotspotMistakeCount, sessionVars,
                        boardVars, justClickedHotspotId, orphans>>

\* (variant: the counter raised by the container and once more by the handler)
HandleFrameClickMistake_CountsTwice(coords) ==
    IF showResults \/ ~FrameHasHotspot(currentFrameData)
    THEN UNCHANGED vars
    ELSE /\ backgroundMistakeCount < MaxMistakes
         /\ backgroundMistakeCount' = backgroundMistakeCount + 2
         /\ backgroundMistakes' =
                Put(backgroundMistakes, currentFrameData.id,
                    Append(Get(backgroundMistakes, currentFrameData.id, << >>), coords))
         /\ HandleMistakeOccurred
         /\ UNCHANGED <<appVars, navVars, answerVars, hotspotMistakeCount, sessionVars,
                        boardVars, justClickedHotspotId, orphans>>

\* handleFrameClickMistake(coords)
HandleFrameClickMistake(coords) ==
    IF showResults \/ ~FrameHasHotspot(currentFrameData)
    THEN UNCHANGED vars
    ELSE /\ backgroundMistakeCount < MaxMistakes
         /\ backgroundMistakeCount' = backgroundMistakeCount + 1
         /\ backgroundMistakes' =
                Put(backgroundMistakes, currentFrameData.id,
                    Append(Get(backgroundMistakes, currentFrameData.id, << >>), coords))
         /\ HandleMistakeOccurred
         /\ UNCHANGED <<appVars, navVars, answerVars, hotspotMistakeCount, sessionVars,
                        boardVars, justClickedHotspotId, orphans>>

\* handleContainerClick, for a click that lands on neither a hotspot nor an input area
ClickBackground(point) ==
    /\ FrameShown
    /\ IF showResults
       THEN UNCHANGED vars
       ELSE HandleFrameClickMistake(ImageCoords(point, currentFrameData))

\* (variant: the frame's other inputs not spread into the new record)
HandleInputChange_DropsOthers(boxId, value) ==
    LET id == currentFrameData.id
    IN  /\ userAnswers' = Put(userAnswers, id,
                              [inputs |-> Put(EmptyMap, boxId, value),
                               hotspotsClicked |-> userAnswers[id].hotspotsClicked])
        /\ UNCHANGED <<appVars, navVars, sequenceState, mistakeVars, sessionVars, boardVars,
                       feedbackVars, browserVars>>

\* handleInputChange(boxId, value)
HandleInputChange(boxId, value) ==
    LET id == currentFrameData.id
    IN  /\ userAnswers' = Put(userAnswers, id,
                              [inputs |-> Put(userAnswers[id].inputs, boxId, value),
                               hotspotsClicked |-> userAnswers[id].hotspotsClicked])
        /\ UNCHANGED <<appVars, navVars, sequenceState, mistakeVars, sessionVars, boardVars,
                       feedbackVars, browserVars>>

\* (variant: onChange without the showResults test)
ChangeInput_Unguarded(boxId, value) ==
    /\ FrameShown
    /\ boxId \in {b.id : b \in InputBoxes(currentFrameData)}
    /\ HandleInputChange(boxId, value)

\* onChange of an input of the frame shown:  !showResults && onInputChange(...)
ChangeInput(boxId, value) ==
    /\ FrameShown
    /\ boxId \in {b.id : b \in InputBoxes(currentFrameData)}
    /\ IF ~showResults THEN HandleInputChange(boxId, value) ELSE UNCHANGED vars

\* (variant: allInputsFilled without the trim)
AllInputsFilled_Untrimmed(frame, frameAnswers) ==
    \A b \in InputBoxes(frame) :
        /\ b.id \in DOMAIN frameAnswers.inputs
        /\ frameAnswers.inputs[b.id] # Str_empty

\* isInputsOnlyFrame and allInputsFilled of handleInputBlur
IsInputsOnlyFrame(frame) ==
    Len(frame.boxes) > 0 /\ \A b \in Range(frame.boxes) : b.type = INPUT
AllInputsFilled(frame, frameAnswers) ==
    \A b \in InputBoxes(frame) :
        /\ b.id \in DOMAIN frameAnswers.inputs
        /\ frameAnswers.inputs[b.id] # Str_empty
        /\ Trim(frameAnswers.inputs[b.id]) # Str_empty

\* handleInputBlur
HandleInputBlur ==
    IF showResults \/ ~IsInputsOnlyFrame(currentFrameData)
       \/ ~AllInputsFilled(currentFrameData, userAnswers[currentFrameData.id])
    THEN UNCHANGED vars
    ELSE /\ Len(timers) < MaxPending
         /\ timers' = Append(timers, Timer("blurAdvance", BlurDelay, currentFrameIdx, FALSE))
         /\ UNCHANGED <<appVars, navVars, answerVars, mistakeVars, sessionVars, boardVars,
                        feedbackVars, orphans>>

\* onBlur of an input of the frame shown:  !showResults && onInputBlur()
BlurInput ==
    /\ FrameShown
    /\ InputBoxes(currentFrameData) # {}
    /\ IF ~showResults THEN HandleInputBlur ELSE UNCHANGED vars

\* a pending setTimeout callback of TestPlayer or TestFramePlayer runs (an
\* advance, a sequence step, the end of the mistake flash, or the end of the
\* 'Link Copied!' label)
FireTimer(i) ==
    /\ i \in DOMAIN timers
    /\ MayFire(i)
    /\ LET t == timers[i]
           navigates == t.kind \in {"hotspotAdvance", "blurAdvance"}
                        \/ (t.kind = "sequenceStep" /\ t.last)
           after == IF navigates
                    THEN Navigate("next", t.idx, Len(frames), currentFrameIdx, showResults)
                    ELSE [idx |-> currentFrameIdx, results |-> showResults]
       IN  /\ currentFrameIdx' = after.idx
           /\ showResults' = after.results
           /\ justClickedHotspotId' =
                  IF t.kind \in {"hotspotAdvance", "sequenceStep"} THEN NoId
                  ELSE justClickedHotspotId
           /\ Remount(after.idx, RemoveAt(timers, i),
                      IF t.kind = "mistakeFlash" THEN FALSE ELSE showMistakeFlash)
           /\ copiedLink' = IF t.kind = "copied" THEN FALSE ELSE copiedLink
           /\ SubmitEffect(after.results, leaderboardData, isSubmittingScore, submissionError,
                           request)
    /\ UNCHANGED <<appVars, answerVars, mistakeVars, elapsedTime, testStarted, userEmail,
                   clipboard, leaderboardData, isFetchingLeaderboard, leaderboardError,
                   committedSubmitting>>

\* (variant: the footer's buttons rendered while in progress as well)
ReviewNavigate_InProgressToo(direction) ==
    /\ FrameShown
    /\ IF direction = "prev" THEN currentFrameIdx # 0
       ELSE currentFrameIdx # Len(frames) - 1
    /\ LET after == Navigate(direction, currentFrameIdx, Len(frames), currentFrameIdx,
                             showResults)
       IN  /\ currentFrameIdx' = after.idx
           /\ showResults' = after.results
           /\ Remount(after.idx, timers, showMistakeFlash)
    /\ UNCHANGED <<appVars, answerVars, mistakeVars, sessionVars, boardVars,
                   justClickedHotspotId>>

\* (variant: the footer's buttons disabled while a leaderboard call is pending)
ReviewNavigate_BlockedWhileBusy(direction) ==
    /\ FrameShown /\ showResults
    /\ ~isSubmittingScore /\ ~isFetchingLeaderboard
    /\ IF direction = "prev" THEN currentFrameIdx # 0
       ELSE currentFrameIdx # Len(frames) - 1
    /\ LET after == Navigate(direction, currentFrameIdx, Len(frames), currentFrameIdx,
                             showResults)
       IN  /\ currentFrameIdx' = after.idx
           /\ showResults' = after.results
           /\ Remount(after.idx, timers, showMistakeFlash)
    /\ UNCHANGED <<appVars, answerVars, mistakeVars, sessionVars, boardVars,
                   justClickedHotspotId>>

\* the review footer's Previous / Next buttons (rendered in review mode only,
\* Previous disabled on the first frame, Next on the last)
ReviewNavigate(direction) ==
    /\ FrameShown /\ showResults
    /\ IF direction = "prev" THEN currentFrameIdx # 0
       ELSE currentFrameIdx # Len(frames) - 1
    /\ LET after == Navigate(direction, currentFrameIdx, Len(frames), currentFrameIdx,
                             showResults)
       IN  /\ currentFrameIdx' = after.idx
           /\ showResults' = after.results
           /\ Remount(after.idx, timers, showMistakeFlash)
    /\ UNCHANGED <<appVars, answerVars, mistakeVars, sessionVars, boardVars,
                   justClickedHotspotId>>

(* ------------------------------ share link ---------------------------- *)
\* the pending callbacks that will call setCopiedLink(false)
CopiedTimers == {i \in DOMAIN timers : timers[i].kind = "copied"}

\* the Share Test button, rendered in the header when there is a shareableLink
\* (a test URL): handleShareClick, up to the promise of clipboard.writeText
HandleShareClick ==
    /\ FrameShown
    /\ testUrl # NULL
    /\ clipboard + Cardinality(CopiedTimers) < MaxShares
    /\ clipboard + Len(timers) < MaxPending
    /\ clipboard' = clipboard + 1
    /\ UNCHANGED <<appVars, navVars, answerVars, mistakeVars, elapsedTime, testStarted,
                   userEmail, copiedLink, boardVars, feedbackVars, browserVars>>

\* the promise of clipboard.writeText settles: resolved, setCopiedLink(true)
\* and the timeout that will take it back; rejected, nothing (there is no catch)
ClipboardSettles(written) ==
    /\ Mounted
    /\ clipboard > 0
    /\ written => Len(timers) < MaxPending
    /\ clipboard' = clipboard - 1
    /\ copiedLink' = (written \/ copiedLink)
    /\ timers' = IF written
                 THEN Append(timers, Timer("copied", CopiedDelay, currentFrameIdx, FALSE))
                 ELSE timers
    /\ UNCHANGED <<appVars, navVars, answerVars, mistakeVars, elapsedTime, testStarted,
                   userEmail, boardVars, feedbackVars, orphans>>

(* --------------------------- leaderboard calls ------------------------ *)
Leaderboards == {<< >>, <<[email |-> <<"a", "@", "b">>, score |-> 1]>>}
\* the messages submitScore's catch may store: the fetch rejected, the answer
\* was not ok, response.json() threw, the answer's success is false with a
\* message of the server or with none
SubmitErrors ==
    { "Failed to fetch",
      "Server responded with an error.",
      "Unexpected token < in JSON at position 0",
      "quota",
      "Failed to submit score." }

\* (variant: fetchLeaderboard called whatever the answer to the submission)
AddScoreCompletes_FetchesAnyway(outcome) ==
    /\ Mounted
    /\ request.kind = "addScore"
    /\ outcome \in {"ok"} \cup SubmitErrors
    /\ submissionError' = IF outcome = "ok" THEN submissionError ELSE outcome
    /\ isFetchingLeaderboard' = TRUE
    /\ leaderboardError' = NULL
    /\ request' = [NoRequest EXCEPT !.kind = "getLeaderboard"]
    /\ committedSubmitting' = TRUE
    /\ UNCHANGED <<appVars, navVars, answerVars, mistakeVars, sessionVars, leaderboardData,
                   isSubmittingScore, feedbackVars, browserVars>>

\* the addScore fetch of submitScore completes
AddScoreCompletes(outcome) ==
    /\ Mounted
    /\ request.kind = "addScore"
    /\ IF outcome = "ok"
       THEN \* await fetchLeaderboard(), up to its fetch
            IF testUrl = NULL
            THEN /\ isSubmittingScore' = FALSE
                 /\ committedSubmitting' = FALSE
                 /\ request' = NoRequest
                 /\ UNCHANGED <<submissionError, isFetchingLeaderboard, leaderboardError>>
            ELSE /\ isFetchingLeaderboard' = TRUE
                 /\ leaderboardError' = NULL
                 /\ committedSubmitting' = isSubmittingScore
                 /\ request' = [NoRequest EXCEPT !.kind = "getLeaderboard"]
                 /\ UNCHANGED <<isSubmittingScore, submissionError>>
       ELSE /\ outcome \in SubmitErrors
            /\ isFetchingLeaderboard' = isFetchingLeaderboard
            /\ leaderboardError' = leaderboardError
            /\ committedSubmitting' = FALSE
            /\ SubmitEffect(showResults, leaderboardData, FALSE, outcome, NoRequest)
    /\ UNCHANGED <<appVars, navVars, answerVars, mistakeVars, sessionVars, leaderboardData,
                   feedbackVars, browserVars>>

\* the getLeaderboard fetch of fetchLeaderboard completes, then the finally
\* blocks of fetchLeaderboard and submitScore run; React commits the render
\* with both flags false, and the submitScore effect of that render runs
\* (isSubmittingScore, one of its dependencies, has changed)
GetLeaderboardCompletes(ok, data) ==
    /\ Mounted
    /\ request.kind = "getLeaderboard"
    /\ leaderboardData' = IF ok THEN Some(data) ELSE leaderboardData
    /\ leaderboardError' = IF ok THEN leaderboardError ELSE "Could not load the leaderboard."
    /\ isFetchingLeaderboard' = FALSE
    /\ committedSubmitting' = FALSE
    /\ SubmitEffect(showResults, leaderboardData', committedSubmitting', submissionError,
                    NoRequest)
    /\ UNCHANGED <<appVars, navVars, answerVars, mistakeVars, sessionVars, feedbackVars,
                   browserVars>>

(* ------------------------------ the proxy ----------------------------- *)
\* the longest upstream body, in chunks
MaxChunks == 2

\* req.query.url of a request: absent, empty, or a target
ProxyUrls == {NULL, "", "https://host/test.zip", "https://host/page"}
Chunks == {"PK", "<html>"}
RECURSIVE Bodies(_)
Bodies(n) == IF n = 0 THEN {<< >>} ELSE Bodies(n - 1) \cup {Append(b, c) : b \in Bodies(n - 1), c \in Chunks}

\* response.ok of node-fetch
ResponseOk(status) == status >= 200 /\ status < 300

\* what the upstream may answer, and the messages fetch may throw
UpstreamResponses ==
    [kind : {"response"}, status : {200, 404, 500}, statusText : {"", "OK", "Not Found"},
     contentType : {NULL, "application/zip"}, body : Bodies(MaxChunks)]
UpstreamErrors == {"request to https://host/test.zip failed", "Only absolute URLs are supported"}

\* (variant: every upstream failure answered as a bad gateway)
FailureStatus_BadGateway(response) == 502

\* res.status(response.status)
FailureStatus(response) == response.status

\* the body sent for an upstream failure: a template literal
FailureBody(response) == "Failed to fetch target file: " \o response.statusText

\* handler, up to the await of fetch: !targetUrl is true of an absent and of an
\* empty url
ProxyRequest(url) ==
    /\ proxy.pc \in {"idle", "done"}
    /\ proxy' = IF url = NULL \/ url = ""
                THEN [ProxyIdle EXCEPT !.pc = "done", !.url = url, !.status = 400,
                                       !.sent = <<"Missing url parameter">>]
                ELSE [ProxyIdle EXCEPT !.pc = "fetching", !.url = url, !.fetched = TRUE]
    /\ UNCHANGED <<gameState, frames, error, testUrl, file, objectUrls, loading, stragglers>>
    /\ PlayerUnchanged

\* handler: fetch resolved; the answer to a failure, or the header and the
\* start of the pipe (an answer without a status set goes out as 200)
ProxyFetchResolves(response) ==
    /\ proxy.pc = "fetching"
    /\ proxy' = IF ~ResponseOk(response.status)
                THEN [proxy EXCEPT !.pc = "done", !.upstream = response,
                                   !.status = FailureStatus(response),
                                   !.sent = <<FailureBody(response)>>]
                ELSE [proxy EXCEPT !.pc = "piping", !.upstream = response, !.status = 200,
                                   !.contentType = IF response.contentType = NULL
                                                   THEN "application/octet-stream"
                                                   ELSE response.contentType,
                                   !.left = response.body]
    /\ UNCHANGED <<gameState, frames, error, testUrl, file, objectUrls, loading, stragglers>>
    /\ PlayerUnchanged

\* handler: fetch threw
ProxyFetchRejects(message) ==
    /\ proxy.pc = "fetching"
    /\ proxy' = [proxy EXCEPT !.pc = "done",
                              !.upstream = [NoUpstream EXCEPT !.kind = "error"],
                              !.status = 500, !.sent = <<"Proxy error: " \o message>>]
    /\ UNCHANGED <<gameState, frames, error, testUrl, file, objectUrls, loading, stragglers>>
    /\ PlayerUnchanged

\* response.body.pipe(res): the next chunk passes, or the stream ends
ProxyPipe ==
    /\ proxy.pc = "piping"
    /\ proxy' = IF proxy.left = << >>
                THEN [proxy EXCEPT !.pc = "done"]
                ELSE [proxy EXCEPT !.sent = Append(proxy.sent, Head(proxy.left)),
                                   !.left = Tail(proxy.left)]
    /\ UNCHANGED <<gameState, frames, error, testUrl, file, objectUrls, loading, stragglers>>
    /\ PlayerUnchanged

\* the proxy alone, serving the requests of any client
ProxyNext ==
    \/ \E u \in ProxyUrls : ProxyRequest(u)
    \/ \E r \in UpstreamResponses : ProxyFetchResolves(r)
    \/ \E e \in UpstreamErrors : ProxyFetchRejects(e)
    \/ ProxyPipe

ProxySpec == Init /\ [][ProxyNext]_vars

(* ------------------------------ behaviour ----------------------------- *)
\* the ids of the boxes of the frames loaded
BoxIds == UNION {{b.id : b \in Range(frames[f].boxes)} : f \in DOMAIN frames}

Next ==
    \/ \E b \in Bundles : HandleFileUpload(b)
    \/ \E u \in TestUrls : HandleUrlSubmit(u)
    \/ \E b \in UrlBundles : FetchCompletes(b)
    \/ \E e \in FetchFailures : FetchFails(e)
    \/ ZipOpened
    \/ ManifestRead
    \/ \E f \in DOMAIN ImageNames : BlobRead(f)
    \/ \E f \in DOMAIN ImageNames : ImageLoaded(f)
    \/ ProcessZipFileOk
    \/ \E e \in UNION {ProcessZipFile(b).messages : b \in Bundles} : ProcessZipFileError(e)
    \/ LateBlobRead
    \/ HandleReset
    \/ OrphansRun
    \/ \E e \in Emails : SetUserEmail(e)
    \/ StartTest
    \/ Tick
    \/ \E b \in BoxIds : ClickHotspot(b)
    \/ \E p \in ClickPoints : ClickBackground(p)
    \/ \E b \in BoxIds, v \in InputValues : ChangeInput(b, v)
    \/ BlurInput
    \/ \E i \in 1..MaxPending : FireTimer(i)
    \/ \E d \in {"prev", "next"} : ReviewNavigate(d)
    \/ HandleShareClick
    \/ \E written \in BOOLEAN : ClipboardSettles(written)
    \/ \E o \in {"ok"} \cup SubmitErrors : AddScoreCompletes(o)
    \/ \E ok \in BOOLEAN, d \in Leaderboards : GetLeaderboardCompletes(ok, d)

Spec == Init /\ [][Next]_vars

\* The sessions in which the leaderboard calls are followed to their end: the
\* same handlers, on bundles of one and of two frames.
BoardBundles ==
    { GoodBundle(<<HotspotFrame>>), GoodBundle(<<OneInputFrame, HotspotFrame>>),
      Bundle("array", <<HotspotFrame, OneInputFrame>>, <<"ok", "missing">>) }

BoardNext ==
    \/ \E b \in BoardBundles : HandleFileUpload(b)
    \/ \E u \in TestUrls : HandleUrlSubmit(u)
    \/ \E b \in BoardBundles : FetchCompletes(b)
    \/ \E e \in FetchFailures : FetchFails(e)
    \/ ZipOpened
    \/ ManifestRead
    \/ \E f \in DOMAIN ImageNames : BlobRead(f)
    \/ \E f \in DOMAIN ImageNames : ImageLoaded(f)
    \/ ProcessZipFileOk
    \/ \E e \in UNION {ProcessZipFile(b).messages : b \in BoardBundles} : ProcessZipFileError(e)
    \/ LateBlobRead
    \/ HandleReset
    \/ OrphansRun
    \/ \E e \in Emails : SetUserEmail(e)
    \/ StartTest
    \/ Tick
    \/ \E b \in BoxIds : ClickHotspot(b)
    \/ \E p \in ClickPoints : ClickBackground(p)
    \/ \E b \in BoxIds, v \in InputValues : ChangeInput(b, v)
    \/ BlurInput
    \/ \E i \in 1..MaxPending : FireTimer(i)
    \/ \E d \in {"prev", "next"} : ReviewNavigate(d)
    \/ HandleShareClick
    \/ \E written \in BOOLEAN : ClipboardSettles(written)
    \/ \E o \in {"ok"} \cup SubmitErrors : AddScoreCompletes(o)
    \/ \E ok \in BOOLEAN, d \in Leaderboards : GetLeaderboardCompletes(ok, d)

\* a fetch that was started settles: its promise resolves or rejects
CallsSettle ==
    /\ WF_vars(\E o \in {"ok"} \cup SubmitErrors : AddScoreCompletes(o))
    /\ WF_vars(\E d \in Leaderboards : \/ GetLeaderboardCompletes(TRUE, d)
                                        \/ GetLeaderboardCompletes(FALSE, d))

FairSpec == Init /\ [][BoardNext]_vars /\ CallsSettle

(* ------------------------------- claims ------------------------------- *)
FrameIds == {frames[f].id : f \in DOMAIN frames}
TotalMistakes == hotspotMistakeCount + backgroundMistakeCount
\* the box of the frame shown with the given id
CurrentBox(boxId) == CHOOSE b \in Range(currentFrameData.boxes) : b.id = boxId
\* the session is in progress on a frame
InProgress == FrameShown /\ ~showResults

\* C1: once review mode is entered, no later step of the session changes the
\* answers, the two mistake counters, the recorded background misses or the score.
C1_ReviewFreezesAnswers ==
    [][ (showResults /\ showResults')
        => /\ userAnswers' = userAnswers
           /\ hotspotMistakeCount' = hotspotMistakeCount
           /\ backgroundMistakeCount' = backgroundMistakeCount
           /\ backgroundMistakes' = backgroundMistakes
           /\ ComputeScore(showResults', frames', userAnswers',
                           hotspotMistakeCount', backgroundMistakeCount').score = score ]_vars

\* review mode with mistakes recorded, a delayed callback still pending and a
\* leaderboard call in flight
C1_Witness ==
    /\ showResults
    /\ TotalMistakes > 0
    /\ timers # << >>
    /\ request.kind # "none"

\* C2: the score, and the score handed to the leaderboard, is never negative.
C2_ScoreNeverNegative == score >= 0 /\ request.score >= 0

\* review mode with more mistakes than correct boxes, and the score 0
C2_Witness ==
    /\ showResults
    /\ SumFrames(frames, userAnswers, 1, [s |-> 0, t |-> 0]).s < TotalMistakes
    /\ score = 0

\* the boxes that count as correct: hotspots marked hit, inputs whose text matches
CorrectBoxIds ==
    UNION { { b.id : b \in { x \in Range(frames[f].boxes) :
                \/ x.type = HOTSPOT /\ x.id \in userAnswers[frames[f].id].hotspotsClicked
                \/ x.type = INPUT
                   /\ InputCorrect(Get(userAnswers[frames[f].id].inputs, x.id, Str_empty),
                                   x.expected) } }
            : f \in DOMAIN frames }

\* C3: in review mode the score is max(0, C - (wrong-hotspot + background
\* mistakes)) with C the number of correct boxes over all frames, and
\* totalPossible is the number of boxes over all frames.
C3_ScoreFormula ==
    showResults =>
        /\ score = Max(0, Cardinality(CorrectBoxIds) - (hotspotMistakeCount + backgroundMistakeCount))
        /\ totalPossible = Cardinality(BoxIds)

\* review mode with a positive score, both kinds of mistakes deducted and a box
\* that is not correct
C3_Witness ==
    /\ showResults
    /\ score > 0
    /\ hotspotMistakeCount > 0 /\ backgroundMistakeCount > 0
    /\ Cardinality(CorrectBoxIds) < Cardinality(BoxIds)

\* C4: in progress on a frame with at most one ordered hotspot, a click on any
\* hotspot marks it hit, leaves the wrong-hotspot counter alone and schedules the
\* advance after the fixed delay; when that callback runs the frame index is the
\* clicked frame's plus one, or review mode is entered if that frame is the last.
C4_NonSequentialClick ==
    [][ /\ \A b \in BoxIds :
            (/\ InProgress
             /\ Cardinality(OrderedHotspots(currentFrameData)) <= 1
             /\ ClickHotspot(b))
            => /\ b \in userAnswers'[currentFrameData.id].hotspotsClicked
               /\ hotspotMistakeCount' = hotspotMistakeCount
               /\ timers' = Append(timers, Timer("hotspotAdvance", HotspotDelay,
                                                 currentFrameIdx, FALSE))
               /\ UNCHANGED <<currentFrameIdx, showResults>>
        /\ \A i \in DOMAIN timers :
            (FireTimer(i) /\ timers[i].kind = "hotspotAdvance")
            => IF timers[i].idx < Len(frames) - 1
               THEN currentFrameIdx' = timers[i].idx + 1 /\ showResults' = showResults
               ELSE showResults' /\ currentFrameIdx' = currentFrameIdx ]_vars

\* the second frame reached from a first frame with one ordered hotspot, whose
\* clicked hotspot is marked hit, with no wrong-hotspot mistake
C4_Witness ==
    /\ InProgress
    /\ currentFrameIdx = 1
    /\ Cardinality(OrderedHotspots(frames[1])) = 1
    /\ userAnswers[frames[1].id].hotspotsClicked # {}
    /\ hotspotMistakeCount = 0
    /\ timers = << >>

\* C5: on a frame with two or more ordered hotspots, a click on a hotspot whose
\* order is not the next expected one marks nothing hit, adds exactly one to the
\* wrong-hotspot counter, starts the mistake flash, and leaves the next expected
\* order, the frame index and the review flag as they were.
C5_OutOfOrderClick ==
    [][ \A b \in BoxIds :
            (/\ InProgress
             /\ Cardinality(OrderedHotspots(currentFrameData)) >= 2
             /\ ClickHotspot(b)
             /\ ~(CurrentBox(b).hasOrder
                  /\ CurrentBox(b).order = Get(sequenceState, currentFrameData.id, 1)))
            => /\ userAnswers' = userAnswers
               /\ hotspotMistakeCount' = hotspotMistakeCount + 1
               /\ showMistakeFlash'
               /\ timers' = Append(timers, Timer("mistakeFlash", FlashDelay, currentFrameIdx, FALSE))
               /\ currentFrameData.id \in frameMistakes'
               /\ UNCHANGED <<sequenceState, currentFrameIdx, showResults>> ]_vars

\* a sequential frame after one out-of-order click: nothing hit, one mistake,
\* the flash on, the next expected order still 1
C5_Witness ==
    /\ InProgress
    /\ Cardinality(OrderedHotspots(currentFrameData)) >= 2
    /\ userAnswers[currentFrameData.id].hotspotsClicked = {}
    /\ hotspotMistakeCount = 1
    /\ showMistakeFlash
    /\ Get(sequenceState, currentFrameData.id, 1) = 1

\* the positions of the frames whose ordered hotspots carry the orders 1..n, n >= 2
OrderedRunFrames ==
    {f \in DOMAIN frames :
        /\ Cardinality(OrderedHotspots(frames[f])) >= 2
        /\ {b.order : b \in OrderedHotspots(frames[f])}
               = 1..Cardinality(OrderedHotspots(frames[f]))}
\* the pending callbacks that advance from the frame at position f after its sequence
PendingSequenceAdvance(f) ==
    {i \in DOMAIN timers :
        timers[i].kind = "sequenceStep" /\ timers[i].last /\ timers[i].idx = f - 1}
HitOrders(f) ==
    {b.order : b \in {x \in OrderedHotspots(frames[f]) :
                        x.id \in userAnswers[frames[f].id].hotspotsClicked}}

\* C6: on a frame whose ordered hotspots have the orders 1..n, n >= 2, the
\* hotspots hit are those of the orders already clicked in turn (all n once
\* order n is clicked); the advance from the frame is scheduled only by the
\* click on order n, at most once, and the frame is left only after it.
C6_SequenceCompletes ==
    Mounted =>
        \A f \in OrderedRunFrames :
            LET n == Cardinality(OrderedHotspots(frames[f]))
                next == NextOrder(sequenceState, frames[f].id)
            IN  /\ next \in 1..(n + 1)
                /\ HitOrders(f) = 1..(next - 1)
                /\ Cardinality(PendingSequenceAdvance(f)) <= 1
                /\ PendingSequenceAdvance(f) # {} => next = n + 1
                /\ (currentFrameIdx > f - 1 \/ showResults)
                       => next = n + 1 /\ PendingSequenceAdvance(f) = {}
                /\ (currentFrameIdx = f - 1 /\ ~showResults /\ next = n + 1)
                       => Cardinality(PendingSequenceAdvance(f)) = 1

\* a sequence 1, 2, 3 completed with a wrong click in between: all three hit,
\* the single advance pending
C6_Witness ==
    /\ InProgress
    /\ currentFrameIdx + 1 \in OrderedRunFrames
    /\ HitOrders(currentFrameIdx + 1) = {1, 2, 3}
    /\ hotspotMistakeCount > 0
    /\ Cardinality(PendingSequenceAdvance(currentFrameIdx + 1)) = 1

\* C7: the next expected order of every frame is 1 until the test is started,
\* and within a session it changes only by +1, on the frame shown, by a click
\* on a hotspot of that frame whose order is the next expected one.
C7_NextOrderSteps ==
    [][ /\ ~testStarted' =>
            \A f \in DOMAIN frames' : NextOrder(sequenceState', frames'[f].id) = 1
        /\ frames' = frames =>
            \A f \in DOMAIN frames :
                NextOrder(sequenceState', frames[f].id) # NextOrder(sequenceState, frames[f].id)
                => /\ NextOrder(sequenceState', frames[f].id)
                          = NextOrder(sequenceState, frames[f].id) + 1
                   /\ InProgress
                   /\ f = currentFrameIdx + 1
                   /\ \E b \in OrderedHotspots(frames[f]) :
                          /\ b.order = NextOrder(sequenceState, frames[f].id)
                          /\ ClickHotspot(b.id) ]_vars

\* in progress with the next expected order of a frame advanced twice
C7_Witness ==
    /\ InProgress
    /\ NextOrder(sequenceState, currentFrameData.id) = 3

\* C8: in progress on a frame with at least one hotspot, a background click adds
\* exactly one to the background-mistake counter and appends the click's
\* image-relative coordinates to the frame's list of misses; the frame index,
\* the review flag, the answers and the sequence progress stay as they were.
C8_BackgroundMiss ==
    [][ \A p \in ClickPoints :
            (/\ InProgress
             /\ HotspotBoxes(currentFrameData) # {}
             /\ ClickBackground(p))
            => /\ backgroundMistakeCount' = backgroundMistakeCount + 1
               /\ backgroundMistakes' =
                      Put(backgroundMistakes, currentFrameData.id,
                          Append(Get(backgroundMistakes, currentFrameData.id, << >>),
                                 [x |-> (p.x * ImageSize.width) \div Rect.width,
                                  y |-> (p.y * ImageSize.height) \div Rect.height]))
               /\ UNCHANGED <<currentFrameIdx, showResults, userAnswers, sequenceState>> ]_vars

\* two background misses recorded on the frame shown, at the image coordinates
\* of the click point
C8_Witness ==
    /\ InProgress
    /\ backgroundMistakeCount = 2
    /\ Get(backgroundMistakes, currentFrameData.id, << >>)
           = <<[x |-> 2, y |-> 8], [x |-> 2, y |-> 8]>>

\* C9: a background click on a frame without hotspots changes neither the
\* background-mistake counter nor the recorded coordinates, and starts no
\* mistake feedback.
C9_NoHotspotNoMiss ==
    [][ \A p \in ClickPoints :
            (/\ FrameShown
             /\ HotspotBoxes(currentFrameData) = {}
             /\ ClickBackground(p))
            => UNCHANGED <<backgroundMistakeCount, backgroundMistakes, showMistakeFlash,
                           frameMistakes, timers>> ]_vars

\* in progress on a frame of inputs only, reached from a frame on which a
\* background miss was recorded; nothing recorded for the frame shown
C9_Witness ==
    /\ InProgress
    /\ Range(currentFrameData.boxes) # {}
    /\ HotspotBoxes(currentFrameData) = {}
    /\ backgroundMistakeCount > 0
    /\ currentFrameData.id \notin DOMAIN backgroundMistakes
    /\ currentFrameData.id \notin frameMistakes

\* C10: review mode is entered only from a started test, the test is started
\* only outside review mode, and testStarted and showResults go back to false
\* only by the reset.
C10_PhaseForward ==
    [][ /\ showResults' => testStarted'
        /\ (~showResults /\ showResults') => testStarted
        /\ (~testStarted /\ testStarted') => ~showResults'
        /\ (testStarted /\ ~testStarted') => HandleReset
        /\ (showResults /\ ~showResults') => HandleReset ]_vars

\* review mode of a started test, after an earlier session was reset with
\* callbacks still pending
C10_Witness ==
    /\ Mounted
    /\ testStarted
    /\ showResults
    /\ orphans # {}

\* C11: the elapsed time is 0 until the test is started, changes within a
\* session only by a tick of +1 while the test is in progress, and does not
\* change once review mode is entered.
C11_TimerOnlyInProgress ==
    [][ /\ ~testStarted' => elapsedTime' = 0
        /\ elapsedTime' # elapsedTime =>
               \/ Mounted /\ testStarted /\ ~showResults /\ Tick
                  /\ elapsedTime' = elapsedTime + 1
               \/ HandleReset
        /\ (showResults /\ showResults') => elapsedTime' = elapsedTime ]_vars

\* review mode entered after a tick, with a delayed callback still pending
C11_Witness ==
    /\ Mounted /\ showResults
    /\ elapsedTime = 1
    /\ timers # << >>

\* the pending callbacks that call navigate('next')
AdvanceTimers ==
    {i \in DOMAIN timers :
        \/ timers[i].kind \in {"hotspotAdvance", "blurAdvance"}
        \/ timers[i].kind = "sequenceStep" /\ timers[i].last}

\* C12: an advance on a frame that is not the last adds one to the frame index
\* and leaves the review flag; an advance on the last frame sets review mode and
\* leaves the frame index; so review mode is entered only while the frame
\* shown is the last one.
C12_AdvanceAndReviewEntry ==
    [][ /\ \A i \in AdvanceTimers :
            FireTimer(i) =>
                IF timers[i].idx < Len(frames) - 1
                THEN currentFrameIdx' = timers[i].idx + 1 /\ showResults' = showResults
                ELSE showResults' /\ currentFrameIdx' = currentFrameIdx
        /\ (~showResults /\ showResults') => currentFrameIdx = Len(frames) - 1 ]_vars

\* C13: the retreat is a step of review mode only: it takes the frame index
\* from a value above 0 to that value minus one and stays in review mode; at
\* index 0 navigate('prev') changes nothing.
C13_RetreatOnlyInReview ==
    [][ /\ ReviewNavigate("prev") =>
               /\ showResults /\ showResults'
               /\ currentFrameIdx > 0
               /\ currentFrameIdx' = currentFrameIdx - 1
        /\ \A r \in BOOLEAN :
               Navigate("prev", 0, Len(frames), currentFrameIdx, r)
                   = [idx |-> currentFrameIdx, results |-> r] ]_vars

\* review mode, gone back from the last frame to the first
C13_Witness ==
    /\ Mounted /\ showResults
    /\ Len(frames) > 1
    /\ currentFrameIdx = 0

\* the text without its surrounding whitespace, stated by its first and last
\* character that is no whitespace
Stripped(s) ==
    IF \A i \in DOMAIN s : IsSpace(s[i]) THEN << >>
    ELSE LET first == CHOOSE i \in DOMAIN s :
                          ~IsSpace(s[i]) /\ \A j \in 1..(i - 1) : IsSpace(s[j])
             last == CHOOSE i \in DOMAIN s :
                         ~IsSpace(s[i]) /\ \A j \in (i + 1)..Len(s) : IsSpace(s[j])
         IN  SubSeq(s, first, last)
SameIgnoringCase(a, b) ==
    Len(a) = Len(b) /\ \A i \in DOMAIN a : LowerChar(a[i]) = LowerChar(b[i])
\* the text of an input box in the answers; an input never touched has none
UserText(f, box) ==
    IF box.id \in DOMAIN userAnswers[frames[f].id].inputs
    THEN userAnswers[frames[f].id].inputs[box.id] ELSE Str_empty

\* C14 as stated: an input box counts as correct exactly when the user's text,
\* trimmed and compared ignoring letter case, equals the expected text as given.
C14_AsStated ==
    Mounted =>
        \A f \in DOMAIN frames : \A box \in InputBoxes(frames[f]) :
            BoxPoints(box, userAnswers[frames[f].id]) = 1
                <=> SameIgnoringCase(Stripped(UserText(f, box)), box.expected)

\* C14 (amended): an input box counts as correct exactly when the user's text
\* and the expected text, both trimmed of surrounding whitespace, are equal
\* ignoring letter case; an input never touched counts as the empty text.
C14_InputComparison ==
    Mounted =>
        \A f \in DOMAIN frames : \A box \in InputBoxes(frames[f]) :
            BoxPoints(box, userAnswers[frames[f].id]) = 1
                <=> SameIgnoringCase(Stripped(UserText(f, box)), Stripped(box.expected))

\* review mode in which the text "x" is counted for the expected text " X"
C14_Witness ==
    /\ Mounted /\ showResults
    /\ \E f \in DOMAIN frames : \E box \in InputBoxes(frames[f]) :
           /\ box.expected = Str_X_padded
           /\ UserText(f, box) = Str_x
           /\ BoxPoints(box, userAnswers[frames[f].id]) = 1

HitSet(answers, fs, f) == answers[fs[f].id].hotspotsClicked

\* C15: within a session a hotspot marked hit stays hit through every later
\* step, and a hit hotspot adds 1 to the score whatever mistakes are recorded
\* on its frame.
C15_HitStaysHit ==
    [][ (Mounted /\ frames' = frames) =>
            \A f \in DOMAIN frames :
                /\ HitSet(userAnswers, frames, f) \subseteq HitSet(userAnswers', frames, f)
                /\ \A b \in HotspotBoxes(frames[f]) :
                       b.id \in HitSet(userAnswers', frames, f)
                       => BoxPoints(b, userAnswers'[frames[f].id]) = 1 ]_vars

\* review mode, a frame with two hotspots hit one after the other and with
\* both a wrong-hotspot and a background mistake recorded on it
C15_Witness ==
    /\ Mounted /\ showResults
    /\ \E f \in DOMAIN frames :
           /\ Cardinality(HitSet(userAnswers, frames, f)) >= 2
           /\ frames[f].id \in frameMistakes
           /\ frames[f].id \in DOMAIN backgroundMistakes
           /\ hotspotMistakeCount > 0

\* C16: within a session each of the two mistake counters changes only by +1,
\* the wrong-hotspot counter by a hotspot click and the background counter by
\* a background click, both in progress.
C16_CountersOnlyGrow ==
    [][ (Mounted /\ frames' = frames) =>
            /\ hotspotMistakeCount' # hotspotMistakeCount =>
                   /\ hotspotMistakeCount' = hotspotMistakeCount + 1
                   /\ InProgress
                   /\ \E b \in BoxIds : ClickHotspot(b)
                   /\ backgroundMistakeCount' = backgroundMistakeCount
            /\ backgroundMistakeCount' # backgroundMistakeCount =>
                   /\ backgroundMistakeCount' = backgroundMistakeCount + 1
                   /\ InProgress
                   /\ \E p \in ClickPoints : ClickBackground(p)
                   /\ hotspotMistakeCount' = hotspotMistakeCount ]_vars

\* both counters raised twice
C16_Witness ==
    /\ Mounted
    /\ hotspotMistakeCount = 2
    /\ backgroundMistakeCount = 2

\* C17: a feedback animation triggered again while an earlier trigger's
\* completion callback is pending stays on until the last trigger's callback:
\* while a flash callback of the frame shown is pending the mistake flash is
\* on, and while a highlight callback scheduled on the frame shown is pending
\* the clicked-hotspot highlight is on (while the test is in progress).
C17_LastTriggerWins ==
    InProgress =>
        /\ (\E i \in DOMAIN timers : timers[i].kind = "mistakeFlash") => showMistakeFlash
        /\ (\E i \in DOMAIN timers :
                /\ timers[i].kind \in {"hotspotAdvance", "sequenceStep"}
                /\ timers[i].idx = currentFrameIdx)
           => justClickedHotspotId # NoId

\* a bundle that must not load: no manifest, a manifest that is not a
\* non-empty array, or a frame whose image is missing or unreadable
MustNotLoad(b) ==
    \/ b.json # "array"
    \/ Len(b.frames) = 0
    \/ \E f \in DOMAIN b.frames : b.images[f] # "ok"

\* C18: the load of a bundle with no manifest, with a manifest that is not a
\* non-empty array, or with a missing or unreadable image ends in the error
\* state with a non-empty message and without frames; the playing state is
\* reached only with one frame per frame descriptor of a bundle whose images
\* all resolved, and at least one frame.
C18_BadBundleFailsLoad ==
    [][ /\ (gameState = "processing" /\ file # NoFile /\ MustNotLoad(file)
            /\ gameState' # "processing")
           => /\ gameState' = "error"
              /\ error' \notin {NULL, ""}
              /\ frames' = << >>
        /\ gameState' = "playing"
           => /\ Len(frames') > 0
              /\ ~MustNotLoad(file')
              /\ Len(frames') = Len(file'.frames) ]_vars

\* the error state after the load of a bundle with an image missing
C18_Witness ==
    /\ gameState = "error"
    /\ file.json = "array"
    /\ \E f \in DOMAIN file.frames : file.images[f] = "missing"
    /\ error = "Image file \"img2.png\" specified in the JSON was not found in the ZIP."

\* the callbacks left pending by components since unmounted have run
OrphansDone == orphans # {} /\ orphans' = {}

\* a TestPlayer as its useState initialisers make it, with nothing pending of
\* its own
FreshSession ==
    /\ ~showResults /\ currentFrameIdx = 0
    /\ \A f \in DOMAIN frames :
           /\ userAnswers[frames[f].id].inputs = EmptyMap
           /\ userAnswers[frames[f].id].hotspotsClicked = {}
           /\ NextOrder(sequenceState, frames[f].id) = 1
    /\ hotspotMistakeCount = 0 /\ backgroundMistakeCount = 0
    /\ backgroundMistakes = EmptyMap /\ frameMistakes = {}
    /\ elapsedTime = 0
    /\ justClickedHotspotId = NoId /\ ~showMistakeFlash /\ ~copiedLink
    /\ ~isSubmittingScore /\ ~isFetchingLeaderboard
    /\ submissionError = NULL /\ leaderboardError = NULL /\ leaderboardData = << >>
    /\ timers = << >> /\ request = NoRequest /\ clipboard = 0

(* C19: the reset, from the error screen or from a started test, leaves the
   upload screen with no frames, no error and no test URL.  A session loaded is
   mounted not started, with an empty email, at frame index 0 with empty
   answers, zero counters, zero elapsed time, next expected order 1 and nothing
   pending of its own, and it stays so until it is started, whatever an earlier
   session or a failed load left pending.  And a step in which what was left
   pending runs (the callbacks of an unmounted player; a blob read of a failed
   load) changes nothing of the screen, the frames, the player's state or what
   is pending for it. *)
C19_ResetLeavesNothing ==
    /\ []((Mounted /\ ~testStarted) => FreshSession)
    /\ [][ /\ HandleReset
              => /\ gameState = "error" \/ (Mounted /\ testStarted)
                 /\ gameState' = "uploading" /\ frames' = << >> /\ error' = NULL
                 /\ testUrl' = NULL
           /\ ProcessZipFileOk
              => (Len(frames') > 0 => ~testStarted' /\ userEmail' = Str_empty)
           /\ (OrphansDone \/ stragglers' < stragglers)
              => UNCHANGED <<gameState, frames, error, testUrl, navVars, answerVars, mistakeVars,
                             sessionVars, boardVars, feedbackVars, timers>> ]_vars

\* a new session, not started, while callbacks of an earlier session are
\* still pending
C19_Witness ==
    /\ Mounted
    /\ ~testStarted
    /\ orphans # {}
    /\ timers = << >>
    /\ hotspotMistakeCount = 0 /\ elapsedTime = 0

\* the failures of the fetch that are a cross-origin block, and the hint for them
IsCrossOriginBlock(message) == message = "Failed to fetch"
CrossOriginHint == " The request may have been blocked by the browser (CORS)."

\* C20: when fetching the bundle of a URL fails, the error shown is the
\* failure's own message, unchanged, with a hint added to it when the failure
\* is a cross-origin block.
C20_FetchFailureMessage ==
    [][ \A m \in FetchFailures :
            FetchFails(m) =>
                IF IsCrossOriginBlock(m)
                THEN error' # m /\ \E hint \in {CrossOriginHint} : error' = m \o hint
                ELSE error' = m ]_vars

(* C21: when the upstream answers with a status that is not OK, the proxy's
   answer has that status, its body is the failure text ending in the upstream
   statusText, and nothing of the upstream body is sent; when the request has no
   url, the answer is 400 and fetch was never called for it. *)
C21_ProxyFailure ==
    proxy.pc = "done" =>
        /\ (proxy.upstream.kind = "response" /\ ~ResponseOk(proxy.upstream.status)) =>
               /\ proxy.status = proxy.upstream.status
               /\ proxy.sent = <<"Failed to fetch target file: " \o proxy.upstream.statusText>>
               /\ proxy.left = << >>
               /\ proxy.contentType = NULL
        /\ proxy.url \in {NULL, ""} =>
               /\ proxy.status = 400
               /\ ~proxy.fetched
               /\ proxy.upstream = NoUpstream

\* an upstream 404 Not Found that came with a body of two chunks was answered
C21_Witness ==
    /\ proxy.pc = "done"
    /\ proxy.upstream.kind = "response"
    /\ proxy.upstream.status = 404
    /\ proxy.upstream.statusText = "Not Found"
    /\ Len(proxy.upstream.body) = 2
    /\ proxy.status = 404

\* a submission or a leaderboard fetch of the mounted TestPlayer is pending
InFlight == Mounted /\ request.kind # "none"

\* a pending call completes
CallCompletes ==
    \/ \E o \in {"ok"} \cup SubmitErrors : AddScoreCompletes(o)
    \/ \E ok \in BOOLEAN, d \in Leaderboards : GetLeaderboardCompletes(ok, d)

(* C22: while a submission or a leaderboard fetch is pending, the session is in
   review, Exit is enabled, Previous is enabled off the first frame and Next off
   the last; a step of one of them taken then moves the frame index by one, or
   unmounts the player and leaves the call pending for a player that is gone;
   the step in which the call completes leaves the answers, the sequence
   progress, the mistake records and counters, the score, the total, the time
   and the frame index as they were; and when it completes after Exit, nothing
   of the state of the App or of a session loaded since changes. *)
C22_CallsDoNotBlock ==
    /\ [](InFlight =>
            /\ FrameShown /\ showResults
            /\ ENABLED HandleReset
            /\ currentFrameIdx # 0 => ENABLED ReviewNavigate("prev")
            /\ currentFrameIdx # Len(frames) - 1 => ENABLED ReviewNavigate("next"))
    /\ [][/\ (InFlight /\ ReviewNavigate("prev")) =>
                 currentFrameIdx' = currentFrameIdx - 1 /\ request' = request
          /\ (InFlight /\ ReviewNavigate("next")) =>
                 currentFrameIdx' = currentFrameIdx + 1 /\ request' = request
          /\ (InFlight /\ HandleReset) =>
                 /\ gameState' = "uploading" /\ ~Mounted'
                 /\ request' = NoRequest /\ orphans' # {}
          /\ CallCompletes =>
                 /\ UNCHANGED <<appVars, navVars, answerVars, mistakeVars, sessionVars,
                                feedbackVars, browserVars>>
                 /\ ComputeScore(showResults', frames', userAnswers', hotspotMistakeCount',
                                 backgroundMistakeCount') = ComputeScore(showResults, frames, userAnswers, hotspotMistakeCount, backgroundMistakeCount)
          /\ OrphansDone =>
                 /\ UNCHANGED <<appVars, navVars, answerVars, mistakeVars, sessionVars,
                                boardVars, feedbackVars, timers>>
                 /\ ComputeScore(showResults', frames', userAnswers', hotspotMistakeCount',
                                 backgroundMistakeCount') = ComputeScore(showResults, frames, userAnswers, hotspotMistakeCount, backgroundMistakeCount)
         ]_vars

\* the leaderboard fetch is pending while the second of three frames is shown
\* in review
C22_Witness ==
    /\ InFlight
    /\ request.kind = "getLeaderboard"
    /\ showResults
    /\ Len(frames) = 3
    /\ currentFrameIdx = 1

(* C23: a file upload starts a load with no test URL; the test URL of a load
   or session changes only when the session ends (reset) or, from the upload
   screen, when a URL is submitted; and while the player is mounted with no test
   URL no call is pending for it, none is marked as running and no leaderboard
   is held -- whatever was loaded or failed to load before. *)
C23_UploadIsPrivate ==
    /\ [][/\ (\E b \in Bundles : HandleFileUpload(b)) => testUrl' = NULL
          /\ (testUrl = NULL /\ testUrl' # NULL) =>
                 gameState = "uploading" /\ \E u \in TestUrls : HandleUrlSubmit(u)
          /\ (testUrl = NULL /\ gameState # "uploading") => request'.kind = "none"
         ]_vars
    /\ []((Mounted /\ testUrl = NULL) =>
            /\ request = NoRequest
            /\ ~isSubmittingScore /\ ~isFetchingLeaderboard
            /\ leaderboardData = << >>)

\* an uploaded test is in review with an email entered, answers given and all
\* timers run out
C23_Witness ==
    /\ Mounted /\ testUrl = NULL
    /\ showResults
    /\ Includes(userEmail, "@")
    /\ timers = << >>
    /\ \E f \in FrameIds : userAnswers[f].hotspotsClicked # {}

(* C24: once a submission was issued in a session no second one is issued in
   it: no step leads from the leaderboard fetch that follows a successful
   submission to a new addScore call. *)
C24_SubmitsOnce ==
    [][~(Mounted /\ request.kind = "getLeaderboard" /\ Mounted' /\ request'.kind = "addScore")]_vars

\* the callback calls navigate('next')
Advances(t) ==
    t.kind \in {"hotspotAdvance", "blurAdvance"} \/ (t.kind = "sequenceStep" /\ t.last)

(* C25: the advance callbacks scheduled on one frame advance by one frame
   together: when such a callback fires while the frame it was scheduled on is
   current, or the next one is because an earlier callback of that frame fired,
   the frame index after it is the index of its frame plus one; on the last
   frame the index stays and review is on. *)
C25_OneAdvancePerFrame ==
    [][\A i \in 1..MaxPending :
         (/\ i \in DOMAIN timers
          /\ Advances(timers[i])
          /\ currentFrameIdx \in {timers[i].idx, timers[i].idx + 1}
          /\ FireTimer(i)) =>
             IF timers[i].idx < Len(frames) - 1
             THEN currentFrameIdx' = timers[i].idx + 1 /\ showResults' = showResults
             ELSE currentFrameIdx' = currentFrameIdx /\ showResults'
      ]_vars

\* in progress, a callback scheduled on the frame before the current one is
\* still pending: another callback of that frame has advanced already
C25_Witness ==
    /\ InProgress
    /\ \E i \in DOMAIN timers : Advances(timers[i]) /\ timers[i].idx = currentFrameIdx - 1

(* C26: while the session is in progress every change of the frame index is an
   increase by exactly one. *)
C26_IndexStepsByOne ==
    [][(InProgress /\ InProgress' /\ currentFrameIdx' # currentFrameIdx) =>
           currentFrameIdx' = currentFrameIdx + 1]_vars

(* C27: while the player is mounted the frame index is at least 0 and less than
   the number of frames, and the frame at it has an answer record. *)
C27_IndexInRange ==
    Mounted =>
        /\ currentFrameIdx \in 0..(Len(frames) - 1)
        /\ frames[currentFrameIdx + 1].id \in DOMAIN userAnswers

\* in progress on the second of three frames although the hotspot of the third
\* was clicked already: a callback of the first frame set the index back
C27_Witness ==
    /\ InProgress
    /\ Len(frames) = 3
    /\ currentFrameIdx = 1
    /\ userAnswers[frames[3].id].hotspotsClicked # {}

\* clicks on the frame's hotspots, each the correct one when it is made, lead
\* from sequence progress p to the click that schedules an advance
RECURSIVE CanCompleteSequence(_, _)
CanCompleteSequence(frame, p) ==
    \E b \in HotspotBoxes(frame) :
        /\ IsCorrectInSequence(b, p)
        /\ IsLastInSequence(p, frame) \/ CanCompleteSequence(frame, p + 1)

\* some clicks, or some texts typed and a blur, schedule an advance on the frame
CanPass(frame, p) ==
    \/ ~IsSequential(frame) /\ HotspotBoxes(frame) # {}
    \/ IsSequential(frame) /\ CanCompleteSequence(frame, p)
    \/ /\ IsInputsOnlyFrame(frame)
       /\ \E texts \in [{b.id : b \in InputBoxes(frame)} -> InputValues] :
              AllInputsFilled(frame, [inputs |-> texts, hotspotsClicked |-> {}])

(* C28: no in-progress state is a dead end.  Only an advance callback moves a
   session in progress, so in every in-progress state one is pending or the
   user can have one scheduled on the current frame. *)
C28_NoDeadEnd ==
    InProgress =>
        \/ \E i \in DOMAIN timers : Advances(timers[i])
        \/ CanPass(currentFrameData, NextOrder(sequenceState, currentFrameData.id))

\* the current frame has a box, all its boxes are inputs, and the text of each
\* holds a character that is no whitespace
BlurQualifies ==
    LET boxes == Range(currentFrameData.boxes)
    IN  /\ boxes # {}
        /\ \A b \in boxes :
               /\ b.type = INPUT
               /\ \E i \in DOMAIN UserText(currentFrameIdx + 1, b) :
                      ~IsSpace(UserText(currentFrameIdx + 1, b)[i])

\* the callback a blur schedules: 150 ms, navigate('next') of the current render
BlurAdvance == Timer("blurAdvance", BlurDelay, currentFrameIdx, FALSE)

(* C29: in progress, a blur that schedules anything does so on a qualifying
   frame (boxes, all of them inputs, each with a text that is not blank) and
   schedules the advance callback; and on a qualifying frame the blur does
   schedule it (while the bound on pending callbacks leaves room).  Whether the
   texts are right plays no part, and a frame with a hotspot never qualifies. *)
C29_BlurAdvancesWhenFilled ==
    /\ [][(InProgress /\ BlurInput /\ timers' # timers) =>
              BlurQualifies /\ timers' = Append(timers, BlurAdvance)]_vars
    /\ []((InProgress /\ BlurQualifies /\ Len(timers) < MaxPending) =>
              ENABLED (BlurInput /\ timers' = Append(timers, BlurAdvance)))

\* a blur has scheduled the advance on a frame of two inputs, one of them
\* holding a wrong answer
C29_Witness ==
    /\ InProgress
    /\ timers # << >>
    /\ timers[Len(timers)] = BlurAdvance
    /\ Cardinality(InputBoxes(currentFrameData)) = 2
    /\ \E b \in InputBoxes(currentFrameData) :
           ~InputCorrect(UserText(currentFrameIdx + 1, b), b.expected)

\* the frame has two or more hotspots with an order
HasSequence(frame) == Cardinality({b \in HotspotBoxes(frame) : b.hasOrder}) >= 2

\* the step counts a wrong-hotspot mistake and marks nothing
CountsAsWrongHotspot ==
    /\ hotspotMistakeCount' = hotspotMistakeCount + 1
    /\ frameMistakes' = frameMistakes \cup {currentFrameData.id}
    /\ UNCHANGED <<userAnswers, sequenceState, navVars, backgroundMistakeCount>>
    /\ \A i \in DOMAIN timers' : i > Len(timers) => ~Advances(timers'[i])

(* C30: on a frame with two or more ordered hotspots, a click in progress on a
   hotspot without order, or on an ordered hotspot that is already marked hit,
   counts as a wrong-hotspot mistake and marks nothing; and in no state is a
   hotspot without order marked hit on such a frame. *)
C30_UnorderedAndRepeatedClicks ==
    /\ [][\A f \in DOMAIN frames : \A b \in HotspotBoxes(frames[f]) :
            (/\ InProgress /\ currentFrameIdx = f - 1
             /\ HasSequence(frames[f])
             /\ ~b.hasOrder \/ b.id \in userAnswers[frames[f].id].hotspotsClicked
             /\ ClickHotspot(b.id)) => CountsAsWrongHotspot
         ]_vars
    /\ [](\A f \in DOMAIN frames : \A b \in HotspotBoxes(frames[f]) :
            (Mounted /\ HasSequence(frames[f]) /\ ~b.hasOrder) =>
                b.id \notin userAnswers[frames[f].id].hotspotsClicked)

\* on a frame with two ordered hotspots and one without order, the first of the
\* sequence is hit and two wrong-hotspot mistakes were counted
C30_Witness ==
    /\ InProgress
    /\ HasSequence(currentFrameData)
    /\ \E b \in HotspotBoxes(currentFrameData) : ~b.hasOrder
    /\ Cardinality(userAnswers[currentFrameData.id].hotspotsClicked) = 1
    /\ hotspotMistakeCount = 2

\* the hotspots of the frame at position f that are marked hit
HitBoxes(f) == {b \in HotspotBoxes(frames[f]) : b.id \in userAnswers[frames[f].id].hotspotsClicked}

(* C31: on every frame with two or more ordered hotspots the number of hotspots
   marked hit is the next expected order minus one, and with a hit hotspot of
   order k there is a hit hotspot of each order 1..k-1. *)
C31_HitsFollowSequence ==
    Mounted =>
        \A f \in DOMAIN frames :
            HasSequence(frames[f]) =>
                /\ Cardinality(HitBoxes(f)) = NextOrder(sequenceState, frames[f].id) - 1
                /\ \A b \in HitBoxes(f) :
                       /\ b.hasOrder
                       /\ \A k \in 1..(b.order - 1) :
                              \E c \in HitBoxes(f) : c.hasOrder /\ c.order = k

\* two hotspots of a sequence are hit, the third expected, after a wrong click
C31_Witness ==
    /\ InProgress
    /\ HasSequence(currentFrameData)
    /\ Cardinality(HitBoxes(currentFrameIdx + 1)) = 2
    /\ NextOrder(sequenceState, currentFrameData.id) = 3
    /\ hotspotMistakeCount > 0

\* the number of coordinates recorded for the frames at positions 1..n
RECURSIVE CoordsRecorded(_)
CoordsRecorded(n) ==
    IF n = 0 THEN 0
    ELSE CoordsRecorded(n - 1) + Len(Get(backgroundMistakes, frames[n].id, << >>))

(* C32: the background-mistake counter is the number of coordinates recorded
   over all frames; coordinates are recorded for frames of the session only,
   and only for frames that hold a hotspot. *)
C32_BackgroundCountMatchesCoords ==
    /\ backgroundMistakeCount = CoordsRecorded(Len(frames))
    /\ DOMAIN backgroundMistakes \subseteq FrameIds
    /\ \A f \in DOMAIN frames :
           Get(backgroundMistakes, frames[f].id, << >>) # << >> =>
               \E b \in Range(frames[f].boxes) : b.type = HOTSPOT

\* two background misses are recorded, on two different frames, and a frame of
\* inputs only, on which a background click counts nothing, was passed
C32_Witness ==
    /\ Mounted
    /\ backgroundMistakeCount = 2
    /\ Cardinality({f \in DOMAIN frames : Get(backgroundMistakes, frames[f].id, << >>) # << >>}) = 2
    /\ \E f \in DOMAIN frames : HotspotBoxes(frames[f]) = {} /\ f < currentFrameIdx + 1

\* userAnswers' differs from userAnswers at most in the entry of box boxId of
\* the record of the current frame
OnlyEntryChanged(boxId) ==
    LET id == currentFrameData.id
    IN  /\ DOMAIN userAnswers' = DOMAIN userAnswers
        /\ \A f \in DOMAIN userAnswers : f # id => userAnswers'[f] = userAnswers[f]
        /\ userAnswers'[id].hotspotsClicked \ {boxId} = userAnswers[id].hotspotsClicked \ {boxId}
        /\ DOMAIN userAnswers'[id].inputs \ {boxId} = DOMAIN userAnswers[id].inputs \ {boxId}
        /\ \A k \in DOMAIN userAnswers[id].inputs \ {boxId} :
               userAnswers'[id].inputs[k] = userAnswers[id].inputs[k]

(* C33: a hotspot click and an input change leave the answer records of the
   frames other than the current one as they were, and in the current frame's
   record every entry but that of the box clicked or typed into; a click
   leaves the inputs alone and a change the hotspots. *)
C33_OnlyCurrentEntryChanges ==
    [][\A b \in BoxIds :
         /\ ClickHotspot(b) =>
                /\ OnlyEntryChanged(b)
                /\ userAnswers'[currentFrameData.id].inputs = userAnswers[currentFrameData.id].inputs
         /\ (\E v \in InputValues : ChangeInput(b, v)) =>
                /\ OnlyEntryChanged(b)
                /\ userAnswers'[currentFrameData.id].hotspotsClicked =
                       userAnswers[currentFrameData.id].hotspotsClicked
      ]_vars

\* on the second frame one of its two inputs holds a text, the other none, and
\* the first frame's record holds its hits
C33_Witness ==
    /\ InProgress
    /\ currentFrameIdx = 1
    /\ Cardinality(InputBoxes(currentFrameData)) = 2
    /\ Cardinality(DOMAIN userAnswers[currentFrameData.id].inputs) = 1
    /\ userAnswers[frames[1].id].hotspotsClicked # {}

(* C34: whenever a submission is pending, review is on, the email is not empty
   and a test URL is present, and the score, total and time sent are those of
   the review state: the score max(0, correct boxes - mistakes), the total the
   number of boxes (so not 0 / 0), the time the elapsed time shown. *)
C34_SubmitsFinalScore ==
    (Mounted /\ request.kind = "addScore") =>
        /\ showResults
        /\ userEmail # Str_empty
        /\ testUrl # NULL
        /\ request.score = Max(0, Cardinality(CorrectBoxIds) - (hotspotMistakeCount + backgroundMistakeCount))
        /\ request.score = score
        /\ request.totalPossible = Cardinality(BoxIds)
        /\ request.totalPossible > 0
        /\ request.time = elapsedTime

\* a submission with a positive score, a mistake deducted and a second of
\* elapsed time is pending
C34_Witness ==
    /\ Mounted /\ request.kind = "addScore"
    /\ request.score > 0
    /\ request.score < Cardinality(CorrectBoxIds)
    /\ request.time > 0

(* C35: a leaderboard fetch is issued only by the step in which a submission
   succeeded.  A failed submission records its error, ends with both flags
   false and no call pending, and for the rest of the session no call is issued
   and the error stays.  The step that ends a submission -- its failure, or the
   end of the leaderboard fetch -- commits a render in which the submitting
   flag is false and leaves the fetching flag false; the submitting flag is
   true after it only with a submission newly issued.  And, calls settling, a
   pending submission is answered, a pending leaderboard fetch ends with
   that commit, and a fetching flag that is true becomes false. *)
C35_SubmissionOutcome ==
    /\ [][/\ (request'.kind = "getLeaderboard" /\ request.kind # "getLeaderboard") =>
                 (request.kind = "addScore" /\ AddScoreCompletes("ok"))
          /\ \A o \in SubmitErrors :
                 AddScoreCompletes(o) =>
                     /\ submissionError' = o
                     /\ ~isSubmittingScore' /\ ~isFetchingLeaderboard'
                     /\ ~committedSubmitting'
                     /\ request' = NoRequest
                     /\ leaderboardData' = leaderboardData
          /\ (Mounted /\ submissionError # NULL /\ Mounted') =>
                 request' = NoRequest /\ submissionError' = submissionError
          /\ (Mounted /\ request.kind = "getLeaderboard" /\ request' # request) =>
                 /\ ~committedSubmitting' /\ ~isFetchingLeaderboard'
                 /\ isSubmittingScore' => (Mounted' /\ request'.kind = "addScore")
          /\ (Mounted /\ Mounted' /\ request.kind = "none" /\ request'.kind = "none") =>
                 ~isSubmittingScore'
         ]_vars
    /\ (isFetchingLeaderboard ~> ~isFetchingLeaderboard)
    /\ ((Mounted /\ request.kind = "addScore") ~> ~(Mounted /\ request.kind = "addScore"))
    /\ ((isSubmittingScore /\ committedSubmitting) ~> ~committedSubmitting)

\* a submission has failed with the server's message: the error is recorded,
\* no call is pending, no flag is set and there is no leaderboard
C35_Witness ==
    /\ Mounted /\ showResults
    /\ submissionError = "quota"
    /\ request = NoRequest
    /\ ~isSubmittingScore /\ ~isFetchingLeaderboard
    /\ leaderboardData = << >> /\ leaderboardError = NULL

(* C36: whenever the app shows the upload screen, no object URL made by a load
   is left unrevoked. *)
C36_UrlsRevokedOnUploadScreen ==
    gameState = "uploading" => objectUrls = {}
====
